---- MODULE Spec2Model ----
(***************************************************************************)
(* Model of the iterator library zkksch/iter: the thread safe sources and  *)
(* pipes (FromSliceSafe, LimitSafe, PairsSafe, CombineSafe) driven by      *)
(* concurrent workers, and the sequential pipes (Map, Limit) driven by one *)
(* caller.  Every atomic operation of the Go code (atomic Add / Load /     *)
(* Store, mutex Lock / Unlock) is one step of a worker; the code between   *)
(* two atomic operations only touches locals and is part of the step that  *)
(* precedes it.  FromChan is driven by workers next to a producer and a    *)
(* cancellation; Sequence / SequenceSafe run in w-bit wraparound           *)
(* arithmetic; Combine, Pairs and Limit over FromSlice are pulled by one   *)
(* caller, one whole pull per step.                                        *)
(***************************************************************************)
EXTENDS Integers, Sequences, FiniteSets, TLC

\* ------------------------------------------------------------------ bounds
NumWorkers == 2     \* G: concurrent goroutines pulling from one iterator
MaxLen == 2         \* longest source slice
MaxExtra == 1       \* pulls made in total by workers that have already been stopped
MaxLimit == 2       \* largest limit handed to Limit / LimitSafe
NumSources == 2     \* most sources handed to CombineSafe
IntBits == 3        \* w: width of int and int64, in bits

Workers == 1..NumWorkers
Values == {1, 2}
Slices == UNION {[1..n -> Values] : n \in 0..MaxLen}
\* int and int64: w bits, two's complement
MinInt == 0 - 2^(IntBits - 1)
MaxInt == 2^(IntBits - 1) - 1
Ints == MinInt..MaxInt
\* signed w-bit arithmetic wraps around
Wrap(x) == ((x - MinInt) % (2^IntBits)) + MinInt
\* limits handed to Limit / LimitSafe: the small ones and the least int
Limits == ((0 - 1)..MaxLimit) \cup {MinInt}

\* ------------------------------------------------------------------ signals
NoErr == "nil"
ErrStopIt == "ErrStopIt"       \* StopNormal
ErrCause == "ErrCause"         \* a failure raised by a mapping function
Empty == 0                     \* `var empty T` for T = int
GenValue == 0                  \* the constant function of the limit test

Max(a, b) == IF a >= b THEN a ELSE b
Min(a, b) == IF a <= b THEN a ELSE b

\* ------------------------------------------------------------------ state
VARIABLES
    cfg,        \* the pipeline under test: kind, impl, upstream, slice, limit, mapping, number of sources
    cursor,     \* cursor[k]: the atomic cursor of the k-th FromSliceSafe source
    remain,     \* Limit / LimitSafe: the remaining budget
    stopped,    \* safeLimitIterator: the stopped flag
    mutex,      \* PairsSafe / CombineSafe: 0 when free, else the worker holding it
    pc,         \* pc[w]: where worker w is inside its pull ("idle" between pulls)
    loc,        \* loc[w]: the locals of worker w's current pull
    seen,       \* seen[w]: worker w has received a stop signal
    extra,      \* pulls started by workers that had already been stopped
    log,        \* the successful pulls, in the order of their deciding atomic step
    ret,        \* ret[w]: the error value of w's last finished pull
    anyStop,    \* some pull has returned ErrStopIt
    anyFail,    \* some pull has returned ErrCause
    upPulls,    \* number of calls made to the upstream of Limit / LimitSafe
    results,    \* sequential driver: the results of the pulls so far
    value,      \* Sequence / SequenceSafe: the running value (it.value)
    ch,         \* FromChan: the source channel (values ready to be received, closed flag)
    ctxDone,    \* FromChan / ToChan: the context has been cancelled
    fin         \* the finalizer driving the iterator: its locals and what it returned

vars == <<cfg, cursor, remain, stopped, mutex, pc, loc, seen, extra, log, ret,
          anyStop, anyFail, upPulls, results, value, ch, ctxDone, fin>>

Loc0 == [k |-> 1, c |-> 0, vals |-> <<>>, err |-> NoErr, rl |-> 0,
         late |-> FALSE, afterFail |-> FALSE, touched |-> FALSE, exhausted |-> FALSE,
         cancelled |-> FALSE, closed |-> FALSE, by |-> "none", up |-> NoErr]

Cfg0 == [kind |-> "slice", impl |-> "func", up |-> "slice", source |-> <<>>,
         limit |-> 0, mapping |-> [v \in Values |-> "ok"], nsrc |-> 1,
         start |-> 0, step |-> 0, srcs |-> <<>>, safe |-> FALSE,
         pred |-> [v \in Values |-> TRUE], consumers |-> 0]

\* make(chan int): nothing ready to be received, not closed, nothing sent yet
Chan0 == [ready |-> <<>>, closed |-> FALSE, sent |-> 0]

\* no finalizer is running
Fin0 == [pc |-> "none"]

\* Mapping functions handed to Map: for each element, a value or a stop signal.
Mappings == [Values -> {"ok", ErrStopIt, ErrCause}]
\* the mappings that raise a stop signal on one element value only
OneStopMappings ==
    {m \in Mappings : Cardinality({v \in Values : m[v] # "ok"}) = 1}

InitCommon ==
    /\ cursor = [k \in 1..(NumSources + 1) |-> 0]
    /\ stopped = FALSE
    /\ mutex = 0
    /\ pc = [w \in Workers |-> "idle"]
    /\ loc = [w \in Workers |-> Loc0]
    /\ seen = [w \in Workers |-> FALSE]
    /\ extra = 0
    /\ log = <<>>
    /\ ret = [w \in Workers |-> NoErr]
    /\ anyStop = FALSE
    /\ anyFail = FALSE
    /\ upPulls = 0
    /\ results = <<>>
    /\ ch = Chan0
    /\ ctxDone = FALSE
    /\ fin = Fin0

\* ------------------------------------------------------------------ FromSliceSafe
\* c := cursor.Add(1) - 1
SafeSliceClaimNoDec(cur) == cur + 1
SafeSliceClaim(cur) == (cur + 1) - 1
SafeSliceAddLost(cur) == cur
SafeSliceAdd(cur) == cur + 1
\* if c >= l
SafeSliceOut(c, l) == c >= l
\* cursor.Store(l)
SafeSlicePinReset(l) == 0
SafeSlicePin(l) == l
\* source[c]
SafeSliceGet(S, c) == S[c + 1]

\* ------------------------------------------------------------------ FromSlice
\* one pull of FromSlice with its cursor at cur:
\* if cursor >= len(source) { return empty, ErrStopIt }; value := source[cursor]; cursor++
FromSliceNext(S, cur) ==
    IF cur >= Len(S)
    THEN [v |-> Empty, err |-> ErrStopIt, cursor |-> cur]
    ELSE [v |-> S[cur + 1], err |-> NoErr, cursor |-> cur + 1]

\* ------------------------------------------------------------------ Map
\* mapping(v): the mapped value, or the stop signal the mapping raises
MapApply(m, v) ==
    IF m[v] = "ok" THEN [v |-> v + 10, err |-> NoErr] ELSE [v |-> Empty, err |-> m[v]]

\* Map's pull, given what its upstream returned
MapNextUnmapped(m, v, err) == [v |-> v, err |-> err]
MapNext(m, v, err) ==
    IF err # NoErr THEN [v |-> Empty, err |-> err] ELSE MapApply(m, v)

\* ------------------------------------------------------------------ the driver
\* Limit is not thread safe: one goroutine drives it.  A channel is read by
\* one consumer or by all workers.
CanRun(w) ==
    /\ cfg.up = "any" => w = 1
    /\ (cfg.kind = "limit" /\ cfg.impl = "plain") => w = 1
    /\ cfg.kind \in {"chan", "tochan"} => w <= cfg.consumers

Entry ==
    CASE cfg.kind = "slice" -> "srcCall"
      [] cfg.kind \in {"chan", "tochan"} -> "chanSelect"
      [] cfg.kind \in {"filter", "map"} -> "srcCall"
      [] cfg.kind \in {"pairs", "combine"} /\ cfg.impl = "plain" -> "srcCall"
      [] cfg.kind = "limit" /\ cfg.impl = "plain" -> "limitCheck"
      [] cfg.kind = "limit" /\ cfg.impl = "func" -> "limitDec"
      [] cfg.kind = "limit" /\ cfg.impl = "struct" -> "limitLoad"
      [] OTHER -> "lock"

\* A worker calls the iterator: for _, err := it(); err == nil; _, err = it()
\* run by each worker until it is stopped; workers that were stopped call it
\* MaxExtra more times in total.
Start(w) ==
    /\ pc[w] = "idle"
    /\ CanRun(w)
    /\ seen[w] => extra < MaxExtra
    /\ pc' = [pc EXCEPT ![w] = Entry]
    /\ loc' = [loc EXCEPT ![w] = [Loc0 EXCEPT !.late = anyStop, !.afterFail = anyFail,
                                              !.cancelled = ctxDone,
                                              !.closed = ch.closed]]
    /\ extra' = IF seen[w] THEN extra + 1 ELSE extra
    /\ UNCHANGED <<cfg, cursor, remain, stopped, mutex, seen, log, ret, anyStop,
                   anyFail, upPulls, results,
                   value, ch, ctxDone, fin>>

\* The pull of worker w returns (vals, err) to the worker.
Finish(w, vals, c, err, l) ==
    /\ pc' = [pc EXCEPT ![w] = "idle"]
    /\ ret' = [ret EXCEPT ![w] = err]
    /\ seen' = [seen EXCEPT ![w] = @ \/ err # NoErr]
    /\ anyStop' = (anyStop \/ err = ErrStopIt)
    /\ anyFail' = (anyFail \/ err = ErrCause)
    /\ log' = IF err = NoErr
              THEN Append(log, [vals |-> vals, c |-> c])
              ELSE log
    /\ loc' = [loc EXCEPT ![w] = [Loc0 EXCEPT !.late = l.late, !.afterFail = l.afterFail,
                                              !.touched = l.touched,
                                              !.exhausted = l.exhausted,
                                              !.cancelled = l.cancelled,
                                              !.closed = l.closed, !.by = l.by,
                                              !.up = l.up]]

Goto(w, label, l) ==
    /\ pc' = [pc EXCEPT ![w] = label]
    /\ loc' = [loc EXCEPT ![w] = l]
    /\ UNCHANGED <<ret, seen, anyStop, anyFail, log>>

\* ------------------------------------------------------------------ PairsSafe, CombineSafe
\* mutex.Lock() blocks while another goroutine holds the mutex
MutexNeverHeld(m) == TRUE
MutexFree(m) == m = 0

\* Pairs / PairsSafe after left() (k = 1) and after right() (k = 2):
\* if err != nil { return Pair{}, err }; after right, return Pair{leftEl, rightEl}, nil
PairsStep(l, v, err) ==
    IF err # NoErr
    THEN [pc |-> "unlock", loc |-> [l EXCEPT !.vals = <<>>, !.err = err]]
    ELSE IF l.k = 1
         THEN [pc |-> "srcCall", loc |-> [l EXCEPT !.vals = <<v>>, !.k = 2]]
         ELSE [pc |-> "unlock", loc |-> [l EXCEPT !.vals = Append(l.vals, v)]]

\* if len(iterators) == 0
CombineEmptyNever(n) == FALSE
CombineEmpty(n) == n = 0

\* for _, source := range iterators: is there a source after the k-th of n
CombineMoreOffByOne(k, n) == k + 1 < n
CombineMore(k, n) == k < n

\* Combine / CombineSafe after the k-th source(): if err != nil { return nil, err };
\* values = append(values, v); after the last source, return values, nil
CombineStep(l, v, err, n) ==
    IF err # NoErr
    THEN [pc |-> "unlock", loc |-> [l EXCEPT !.vals = <<>>, !.err = err]]
    ELSE IF CombineMore(l.k, n)
         THEN [pc |-> "srcCall", loc |-> [l EXCEPT !.vals = Append(l.vals, v), !.k = l.k + 1]]
         ELSE [pc |-> "unlock", loc |-> [l EXCEPT !.vals = Append(l.vals, v)]]

\* Filter after source(): the loop ends with the upstream's error, returns the
\* element the predicate accepts, and calls source() again otherwise
FilterStepStops(P, v, err) ==
    [again |-> FALSE, err |-> IF err # NoErr THEN ErrStopIt ELSE NoErr]
FilterStep(P, v, err) ==
    IF err # NoErr THEN [again |-> FALSE, err |-> err]
    ELSE IF P[v] THEN [again |-> FALSE, err |-> NoErr]
         ELSE [again |-> TRUE, err |-> NoErr]

\* ------------------------------------------------------------------ returns of an upstream pull
\* The upstream returned (v, err) to the stage that called it; c is the index
\* the upstream claimed.
Return(w, v, err, c, l) ==
    CASE cfg.kind \in {"slice", "chan", "tochan"} ->
            Finish(w, <<v>>, c, err, l)
      [] cfg.kind = "limit" ->
            LET r == IF cfg.up = "map" THEN MapNext(cfg.mapping, v, err)
                     ELSE [v |-> v, err |-> err]
            IN IF cfg.impl # "plain" /\ r.err = NoErr
               THEN Finish(w, <<r.v>>, c, NoErr, l)
               ELSE Goto(w, "limitAfter", [l EXCEPT !.vals = <<r.v>>, !.err = r.err, !.c = c])
      [] cfg.kind = "pairs" ->
            LET n == PairsStep(l, v, err) IN Goto(w, n.pc, n.loc)
      [] cfg.kind = "combine" ->
            LET n == CombineStep(l, v, err, cfg.nsrc) IN Goto(w, n.pc, n.loc)
      [] cfg.kind = "map" ->
            LET r == MapNext(cfg.mapping, v, err) IN Finish(w, <<r.v>>, c, r.err, l)
      [] cfg.kind = "filter" ->
            LET n == FilterStep(cfg.pred, v, err)
            IN IF n.again THEN Goto(w, "srcCall", l) ELSE Finish(w, <<v>>, c, n.err, l)

\* ------------------------------------------------------------------ sources
\* the slice of the k-th source: cfg.srcs[k], or cfg.source when all the
\* sources were built from one slice
SrcSlice(k) == IF cfg.srcs = <<>> THEN cfg.source ELSE cfg.srcs[k]

\* FromSliceSafe: c := cursor.Add(1) - 1; in bounds it returns source[c]
SliceAdd(w) ==
    /\ pc[w] = "srcCall"
    /\ cfg.up \in {"slice", "map"}
    /\ LET k == loc[w].k
           c == SafeSliceClaim(cursor[k])
       IN /\ cursor' = [cursor EXCEPT ![k] = SafeSliceAdd(@)]
          /\ IF SafeSliceOut(c, Len(SrcSlice(loc[w].k)))
             THEN Goto(w, "srcStore", [loc[w] EXCEPT !.c = c, !.touched = TRUE])
             ELSE Return(w, SafeSliceGet(SrcSlice(loc[w].k), c), NoErr, c,
                         [loc[w] EXCEPT !.touched = TRUE])
    /\ upPulls' = IF cfg.kind = "limit" THEN upPulls + 1 ELSE upPulls
    /\ UNCHANGED <<cfg, remain, stopped, mutex, extra, results,
                   value, ch, ctxDone, fin>>

\* FromSliceSafe, out of bounds: cursor.Store(l); return empty, ErrStopIt
SliceStore(w) ==
    /\ pc[w] = "srcStore"
    /\ cursor' = [cursor EXCEPT ![loc[w].k] = SafeSlicePin(Len(SrcSlice(loc[w].k)))]
    /\ Return(w, Empty, ErrStopIt, loc[w].c, loc[w])
    /\ UNCHANGED <<cfg, remain, stopped, mutex, extra, upPulls, results,
                   value, ch, ctxDone, fin>>

\* ------------------------------------------------------------------ FromSliceSafe driven by G workers
InitSlice ==
    /\ InitCommon
    /\ value = 0
    /\ \E S \in Slices : cfg = [Cfg0 EXCEPT !.source = S]
    /\ remain = 0

NextSlice ==
    \E w \in Workers :
        \/ Start(w)
        \/ SliceAdd(w)
        \/ SliceStore(w)

SpecSlice == InitSlice /\ [][NextSlice]_vars

\* every worker has pulled until it was stopped, and no pull is in flight
AllStopped == \A w \in Workers : CanRun(w) => (seen[w] /\ pc[w] = "idle")

\* ------------------------------------------------------------------ Generator
\* Generator(fn): each pull returns fn(), nil; fn is the constant function
GenNext(w) ==
    /\ pc[w] = "srcCall"
    /\ cfg.up = "gen"
    /\ Return(w, GenValue, NoErr, 0, [loc[w] EXCEPT !.touched = TRUE])
    /\ upPulls' = IF cfg.kind = "limit" THEN upPulls + 1 ELSE upPulls
    /\ UNCHANGED <<cfg, cursor, remain, stopped, mutex, extra, results,
                   value, ch, ctxDone, fin>>

\* ------------------------------------------------------------------ Limit, LimitSafe, safeLimitIterator
\* if remain <= 0
LimitDoneStrict(r) == r < 0
LimitDone(r) == r <= 0
\* remainLocal := remain.Add(-1)
LimitDecr(r) == Wrap(r - 1)
\* if remainLocal < 0
LimitExhaustedOffByOne(rl) == rl <= 0
LimitExhaustedLate(rl) == rl < 0 - 1
LimitExhausted(rl) == rl < 0
\* remain.Store(0): the counter after the store, whatever it was before
LimitPinnedToOne(r) == 1
LimitPinned(r) == 0

\* Limit: if remain <= 0 { return empty, ErrStopIt }; otherwise v, err := source()
LimitCheck(w) ==
    /\ pc[w] = "limitCheck"
    /\ IF LimitDone(remain)
       THEN Finish(w, <<Empty>>, 0, ErrStopIt, [loc[w] EXCEPT !.exhausted = TRUE])
       ELSE Goto(w, "srcCall", loc[w])
    /\ UNCHANGED <<cfg, cursor, remain, stopped, mutex, extra, upPulls, results,
                   value, ch, ctxDone, fin>>

\* Limit, after source(): if err == nil { remain-- } else { remain = 0 }; return v, err
LimitUpdate(w) ==
    /\ pc[w] = "limitAfter"
    /\ cfg.impl = "plain"
    /\ remain' = IF loc[w].err = NoErr THEN remain - 1 ELSE 0
    /\ Finish(w, loc[w].vals, loc[w].c, loc[w].err, loc[w])
    /\ UNCHANGED <<cfg, cursor, stopped, mutex, extra, upPulls, results,
                   value, ch, ctxDone, fin>>

\* safeLimitIterator: stop := it.stopped.Load(); if stop { return empty, ErrStopIt }
SafeLimitLoad(w) ==
    /\ pc[w] = "limitLoad"
    /\ IF stopped
       THEN Finish(w, <<Empty>>, 0, ErrStopIt, [loc[w] EXCEPT !.exhausted = TRUE])
       ELSE Goto(w, "limitDec", loc[w])
    /\ UNCHANGED <<cfg, cursor, remain, stopped, mutex, extra, upPulls, results,
                   value, ch, ctxDone, fin>>

\* LimitSafe and safeLimitIterator: remainLocal := remain.Add(-1); if remainLocal < 0
LimitSafeDec(w) ==
    /\ pc[w] = "limitDec"
    /\ LET rl == LimitDecr(remain)
       IN /\ remain' = rl
          /\ IF LimitExhausted(rl)
             THEN Goto(w, "limitPin", [loc[w] EXCEPT !.rl = rl, !.exhausted = TRUE])
             ELSE Goto(w, "srcCall", [loc[w] EXCEPT !.rl = rl])
    /\ UNCHANGED <<cfg, cursor, stopped, mutex, extra, upPulls, results,
                   value, ch, ctxDone, fin>>

\* LimitSafe, budget exhausted: remain.Store(0); return empty, ErrStopIt
LimitSafePin(w) ==
    /\ pc[w] = "limitPin"
    /\ cfg.impl = "func"
    /\ remain' = LimitPinned(remain)
    /\ Finish(w, <<Empty>>, 0, ErrStopIt, loc[w])
    /\ UNCHANGED <<cfg, cursor, stopped, mutex, extra, upPulls, results,
                   value, ch, ctxDone, fin>>

\* safeLimitIterator, budget exhausted: it.stopped.Store(true); return empty, ErrStopIt
SafeLimitStop(w) ==
    /\ pc[w] = "limitPin"
    /\ cfg.impl = "struct"
    /\ stopped' = TRUE
    /\ Finish(w, <<Empty>>, 0, ErrStopIt, loc[w])
    /\ UNCHANGED <<cfg, cursor, remain, mutex, extra, upPulls, results,
                   value, ch, ctxDone, fin>>

\* LimitSafe, source() failed: if err != nil { remain.Store(0) }; return v, err
\* (with err == nil the pull returns v in the step of the upstream pull)
LimitSafeAfter(w) ==
    /\ pc[w] = "limitAfter"
    /\ cfg.impl = "func"
    /\ remain' = LimitPinned(remain)
    /\ Finish(w, loc[w].vals, loc[w].c, loc[w].err, loc[w])
    /\ UNCHANGED <<cfg, cursor, stopped, mutex, extra, upPulls, results,
                   value, ch, ctxDone, fin>>

\* safeLimitIterator, source.Next() failed: if err != nil { it.stopped.Store(true) }; return next, err
SafeLimitAfter(w) ==
    /\ pc[w] = "limitAfter"
    /\ cfg.impl = "struct"
    /\ stopped' = TRUE
    /\ Finish(w, loc[w].vals, loc[w].c, loc[w].err, loc[w])
    /\ UNCHANGED <<cfg, cursor, remain, mutex, extra, upPulls, results,
                   value, ch, ctxDone, fin>>

\* Limit(source, n), LimitSafe(source, n) and the struct based safe limit over
\* Generator(constant), FromSliceSafe(S) or Map(FromSliceSafe(S), mapping).
InitLimit ==
    /\ InitCommon
    /\ value = 0
    /\ \E impl \in {"plain", "func", "struct"}, n \in Limits, up \in {"gen", "slice", "map"},
          S \in Slices, m \in OneStopMappings \cup {Cfg0.mapping} :
          /\ up = "gen" => S = <<>>
          /\ n = MinInt => up = "slice"
          /\ up # "map" => m = Cfg0.mapping
          /\ up = "map" => (S # <<>> /\ m # Cfg0.mapping)
          /\ cfg = [Cfg0 EXCEPT !.kind = "limit", !.impl = impl, !.up = up, !.source = S,
                                 !.limit = n, !.mapping = m]
          /\ remain = n

NextLimit ==
    \E w \in Workers :
        \/ Start(w)
        \/ LimitCheck(w)
        \/ LimitUpdate(w)
        \/ SafeLimitLoad(w)
        \/ LimitSafeDec(w)
        \/ LimitSafePin(w)
        \/ SafeLimitStop(w)
        \/ LimitSafeAfter(w)
        \/ SafeLimitAfter(w)
        \/ GenNext(w)
        \/ SliceAdd(w)
        \/ SliceStore(w)

SpecLimit == InitLimit /\ [][NextLimit]_vars

\* ------------------------------------------------------------------ PairsSafe, CombineSafe: the critical section
\* PairsSafe: mutex.Lock(); leftEl, err := left()
PairsSafeLock(w) ==
    /\ pc[w] = "lock"
    /\ cfg.kind = "pairs"
    /\ MutexFree(mutex)
    /\ mutex' = w
    /\ Goto(w, "srcCall", loc[w])
    /\ UNCHANGED <<cfg, cursor, remain, stopped, extra, upPulls, results,
                   value, ch, ctxDone, fin>>

\* CombineSafe: mutex.Lock(); values := make([]T, 0, len(iterators));
\* if len(iterators) == 0 { return values, ErrStopIt }
CombineSafeLock(w) ==
    /\ pc[w] = "lock"
    /\ cfg.kind = "combine"
    /\ MutexFree(mutex)
    /\ mutex' = w
    /\ IF CombineEmpty(cfg.nsrc)
       THEN Goto(w, "unlock", [loc[w] EXCEPT !.err = ErrStopIt])
       ELSE Goto(w, "srcCall", loc[w])
    /\ UNCHANGED <<cfg, cursor, remain, stopped, extra, upPulls, results,
                   value, ch, ctxDone, fin>>

\* defer mutex.Unlock(): runs on every return path, then the pull returns
UnlockOnSuccess(w) ==
    /\ pc[w] = "unlock"
    /\ cfg.impl # "plain"
    /\ mutex' = IF loc[w].err = NoErr THEN 0 ELSE mutex
    /\ Finish(w, loc[w].vals, loc[w].c, loc[w].err, loc[w])
    /\ UNCHANGED <<cfg, cursor, remain, stopped, extra, upPulls, results,
                   value, ch, ctxDone, fin>>
Unlock(w) ==
    /\ pc[w] = "unlock"
    /\ cfg.impl # "plain"
    /\ mutex' = 0
    /\ Finish(w, loc[w].vals, loc[w].c, loc[w].err, loc[w])
    /\ UNCHANGED <<cfg, cursor, remain, stopped, extra, upPulls, results,
                   value, ch, ctxDone, fin>>

\* Pairs and Combine hold no mutex: the pull returns what the round produced
ZipReturn(w) ==
    /\ pc[w] = "unlock"
    /\ cfg.impl = "plain"
    /\ Finish(w, loc[w].vals, loc[w].c, loc[w].err, loc[w])
    /\ UNCHANGED <<cfg, cursor, remain, stopped, mutex, extra, upPulls, results,
                   value, ch, ctxDone, fin>>

\* PairsSafe(FromSliceSafe(S), FromSliceSafe(S)) and
\* CombineSafe(FromSliceSafe(S), ..., FromSliceSafe(S)) driven by G workers
InitZip ==
    /\ InitCommon
    /\ value = 0
    /\ \E kind \in {"pairs", "combine"}, S \in Slices, n \in 0..NumSources :
          /\ kind = "pairs" => n = 2
          /\ cfg = [Cfg0 EXCEPT !.kind = kind, !.source = S, !.nsrc = n]
    /\ remain = 0

NextZip ==
    \E w \in Workers :
        \/ Start(w)
        \/ PairsSafeLock(w)
        \/ CombineSafeLock(w)
        \/ SliceAdd(w)
        \/ SliceStore(w)
        \/ Unlock(w)

SpecZip == InitZip /\ [][NextZip]_vars

\* PairsSafe and CombineSafe over FromSliceSafe sources of which one may be an
\* element shorter than the others, so that a later source can stop first
InitZipFair ==
    /\ InitCommon
    /\ value = 0
    /\ remain = 0
    /\ \E kind \in {"pairs", "combine"}, n \in 0..NumSources, L \in 0..MaxLen :
          \E short \in 0..n :
             /\ kind = "pairs" => n = 2
             /\ cfg = [Cfg0 EXCEPT !.kind = kind, !.nsrc = n,
                         !.source = [i \in 1..L |-> 1],
                         !.srcs = [k \in 1..n |->
                                     [i \in 1..(IF k = short /\ L > 0 THEN L - 1 ELSE L)
                                         |-> 1]]]

\* The scheduler runs every goroutine that can take a step, FromSliceSafe never
\* blocks, and sync.Mutex hands the lock to a goroutine that keeps waiting.
SpecZipFair ==
    /\ InitZipFair
    /\ [][NextZip]_vars
    /\ \A w \in Workers :
          /\ WF_vars(SliceAdd(w) \/ SliceStore(w) \/ Unlock(w))
          /\ SF_vars(PairsSafeLock(w) \/ CombineSafeLock(w))

\* ------------------------------------------------------------------ one caller pulling a sequential pipeline
\* pulls the caller makes: enough to pass the end of the longest slice
SeqPulls == MaxLen + MaxExtra + 1

\* one pull on Map(FromSlice(S), mapping): v, err := source(); then mapping(v)
MapPull ==
    /\ cfg.kind = "seqmap"
    /\ Len(results) < SeqPulls
    /\ LET u == FromSliceNext(cfg.source, cursor[1])
           r == MapNext(cfg.mapping, u.v, u.err)
       IN /\ cursor' = [cursor EXCEPT ![1] = u.cursor]
          /\ results' = Append(results, r)
    /\ UNCHANGED <<cfg, remain, stopped, mutex, pc, loc, seen, extra, log, ret,
                   anyStop, anyFail, upPulls,
                   value, ch, ctxDone, fin>>

InitSeq ==
    /\ InitCommon
    /\ value = 0
    /\ \E S \in Slices, m \in Mappings :
          cfg = [Cfg0 EXCEPT !.kind = "seqmap", !.source = S, !.mapping = m]
    /\ remain = 0

NextSeq == MapPull

SpecSeq == InitSeq /\ [][NextSeq]_vars

\* ------------------------------------------------------------------ claims on FromSliceSafe
DeliveredCount(v) == Cardinality({i \in 1..Len(log) : log[i].vals = <<v>>})
SourceCount(v) == Cardinality({i \in 1..Len(cfg.source) : cfg.source[i] = v})

\* C1: G workers pulling FromSliceSafe(S) until each is stopped make exactly
\* len(S) successful pulls in total, the delivered multiset is the multiset of
\* S, and no index is delivered twice or skipped.
C1_ExactlyOnce ==
    cfg.kind = "slice" =>
        /\ \A i, j \in 1..Len(log) : log[i].c = log[j].c => i = j
        /\ AllStopped =>
              /\ Len(log) = Len(cfg.source)
              /\ \A v \in Values : DeliveredCount(v) = SourceCount(v)
              /\ \A n \in 0..(Len(cfg.source) - 1) : \E i \in 1..Len(log) : log[i].c = n

C1_Witness ==
    /\ cfg.kind = "slice"
    /\ AllStopped
    /\ Len(cfg.source) >= 2
    /\ cfg.source[1] # cfg.source[2]

\* C2: ordered by their fetch-and-increment, the k-th successful pull (k from
\* 0) claimed index k and returned S[k], whichever worker made it.
C2_GlobalOrder ==
    cfg.kind = "slice" =>
        \A i \in 1..Len(log) : log[i].c = i - 1 /\ log[i].vals = <<cfg.source[i]>>

C2_Witness ==
    /\ cfg.kind = "slice"
    /\ Len(log) >= 2
    /\ cfg.source[1] # cfg.source[2]
    /\ \E w, u \in Workers : w # u /\ pc[w] = "srcStore" /\ pc[u] = "idle" /\ ~seen[u]

\* C3: once a pull has returned ErrStopIt, every pull that starts afterwards
\* returns ErrStopIt and delivers nothing, and the cursor is never again below
\* len(S).
C3_StaysStopped ==
    cfg.kind = "slice" =>
        /\ \A w \in Workers : (pc[w] = "idle" /\ loc[w].late) => ret[w] = ErrStopIt
        /\ anyStop => cursor[1] >= Len(cfg.source)

\* a late pull has returned, while another worker's out-of-bounds claim is still pending
C3_Witness ==
    /\ cfg.kind = "slice"
    /\ Len(cfg.source) >= 1
    /\ \E w, u \in Workers :
          /\ pc[w] = "idle" /\ loc[w].late /\ ret[w] = ErrStopIt
          /\ pc[u] = "srcStore"

\* ------------------------------------------------------------------ claims on Limit and LimitSafe
LimitIsSafe == cfg.kind = "limit" /\ cfg.impl \in {"func", "struct"}

\* C4: G workers pulling LimitSafe(Generator(constant), N) until each is
\* stopped make exactly N successful pulls in total, with the function based
\* LimitSafe and with the struct based safeLimitIterator alike.
C4_ExactlyN ==
    (LimitIsSafe /\ cfg.up = "gen" /\ cfg.limit >= 0) =>
        /\ Len(log) <= cfg.limit
        /\ AllStopped => Len(log) = cfg.limit

\* all N pulls were handed out before any worker was stopped, and a second
\* worker is still about to pin the counter after the first has returned
C4_Witness ==
    /\ LimitIsSafe /\ cfg.up = "gen" /\ cfg.limit >= 2
    /\ Len(log) = cfg.limit
    /\ \E w, u \in Workers : pc[w] = "idle" /\ seen[w] /\ pc[u] = "limitPin"

\* C5: Limit and LimitSafe call their upstream at most max(n, 0) times in
\* total, and a pull that finds the budget exhausted returns ErrStopIt
\* without having called the upstream.
C5_NoOvershoot ==
    cfg.kind = "limit" =>
        /\ upPulls <= Max(cfg.limit, 0)
        /\ \A w \in Workers :
              loc[w].exhausted =>
                  /\ ~loc[w].touched
                  /\ pc[w] \in {"idle", "limitPin"}
                  /\ pc[w] = "idle" => ret[w] = ErrStopIt

\* the whole budget was spent on upstream calls and a later pull found it exhausted
C5_Witness ==
    /\ cfg.kind = "limit" /\ cfg.limit >= 1
    /\ upPulls = cfg.limit
    /\ \E w \in Workers : pc[w] = "idle" /\ loc[w].exhausted /\ ret[w] = ErrStopIt

PrefixLen == Min(Max(cfg.limit, 0), Len(cfg.source))

\* C6: LimitSafe(FromSliceSafe(S), N) driven by G workers delivers only
\* elements among the first min(max(N, 0), len(S)) of S, each at most once,
\* and exactly those once every worker is stopped.
C6_Prefix ==
    (LimitIsSafe /\ cfg.up = "slice") =>
        /\ \A i \in 1..Len(log) :
              /\ log[i].c < PrefixLen
              /\ log[i].vals = <<cfg.source[log[i].c + 1]>>
        /\ \A i, j \in 1..Len(log) : log[i].c = log[j].c => i = j
        /\ AllStopped => {log[i].c : i \in 1..Len(log)} = 0..(PrefixLen - 1)

\* the limit cut the slice short: the upstream was left undrained
C6_Witness ==
    /\ LimitIsSafe /\ cfg.up = "slice"
    /\ AllStopped
    /\ cfg.limit >= 1 /\ cfg.limit < Len(cfg.source)
    /\ Len(log) = cfg.limit
    /\ cursor[1] = cfg.limit

\* ------------------------------------------------------------------ claims on PairsSafe and CombineSafe
AllEqual(vals) == \A i, j \in 1..Len(vals) : vals[i] = vals[j]

\* C7: PairsSafe over two FromSliceSafe sources of the same S, driven by G
\* workers, delivers only pairs with Left == Right, and exactly len(S) pairs
\* once every worker is stopped.
C7_PairsSynchronized ==
    cfg.kind = "pairs" =>
        /\ \A i \in 1..Len(log) : Len(log[i].vals) = 2 /\ log[i].vals[1] = log[i].vals[2]
        /\ Len(log) <= Len(cfg.source)
        /\ AllStopped => Len(log) = Len(cfg.source)

C7_Witness ==
    /\ cfg.kind = "pairs"
    /\ AllStopped
    /\ Len(cfg.source) >= 2 /\ cfg.source[1] # cfg.source[2]
    /\ Len(log) = Len(cfg.source)

\* C8: CombineSafe over n >= 1 FromSliceSafe sources of the same S, driven by
\* G workers, delivers only groups of n equal values, and exactly len(S)
\* groups once every worker is stopped.
C8_GroupsSynchronized ==
    (cfg.kind = "combine" /\ cfg.nsrc >= 1) =>
        /\ \A i \in 1..Len(log) : Len(log[i].vals) = cfg.nsrc /\ AllEqual(log[i].vals)
        /\ Len(log) <= Len(cfg.source)
        /\ AllStopped => Len(log) = Len(cfg.source)

C8_Witness ==
    /\ cfg.kind = "combine" /\ cfg.nsrc >= 2
    /\ AllStopped
    /\ Len(cfg.source) >= 2 /\ cfg.source[1] # cfg.source[2]
    /\ Len(log) = Len(cfg.source)

\* ------------------------------------------------------------------ claims on the terminal condition
IsStop(r) == r.err # NoErr

\* C9: once a pull on Map(upstream, mapping) has returned a stop signal,
\* every later pull on it returns that same stop signal.
C9_MapMonotonic ==
    cfg.kind = "seqmap" =>
        \A i, j \in 1..Len(results) :
            (i < j /\ IsStop(results[i])) => results[j].err = results[i].err

\* C10: once a pull on Limit / LimitSafe has returned an upstream failure
\* with cause err, every pull that starts afterwards returns that same cause.
C10_LimitSameCause ==
    cfg.kind = "limit" =>
        \A w \in Workers : (pc[w] = "idle" /\ loc[w].afterFail) => ret[w] = ErrCause

\* ------------------------------------------------------------------ FromChan
\* The select of FromChan first looks for a case that can proceed and picks
\* any of them; when none can, the goroutine parks on both channels and the
\* first send, close or cancel that reaches it decides its case.

\* the goroutines parked in the select
Parked == {w \in Workers : pc[w] = "chanParked"}

\* a parked goroutine is woken with the outcome (v, err) of its select
WokenEmpty(l, v, err, c, by) ==
    [l EXCEPT !.vals = <<Empty>>, !.err = err, !.c = c, !.by = by]
Woken(l, v, err, c, by) == [l EXCEPT !.vals = <<v>>, !.err = err, !.c = c, !.by = by]

\* close(source) and cancel() wake every parked goroutine with empty, ErrStopIt
WakeNone(by) == UNCHANGED <<pc, loc>>
WakeAll(by) ==
    /\ pc' = [w \in Workers |-> IF w \in Parked THEN "chanWoken" ELSE pc[w]]
    /\ loc' = [w \in Workers |-> IF w \in Parked
                                 THEN Woken(loc[w], Empty, ErrStopIt, ch.sent, by)
                                 ELSE loc[w]]

\* The producer of the channel tests: for _, v := range source { c <- v }, then
\* close(c).  The channel is unbuffered: the value goes straight to a parked
\* receiver, or the producer blocks with it in ch.ready.  A nil channel has no
\* producer.
ChanSend ==
    /\ cfg.kind = "chan"
    /\ cfg.impl # "nil"
    /\ ~ch.closed
    /\ ch.ready = <<>>
    /\ ch.sent < Len(cfg.source)
    /\ LET v == cfg.source[ch.sent + 1]
       IN IF Parked = {}
          THEN /\ ch' = [ch EXCEPT !.ready = <<v>>, !.sent = @ + 1]
               /\ UNCHANGED <<pc, loc>>
          ELSE \E w \in Parked :
                  /\ ch' = [ch EXCEPT !.sent = @ + 1]
                  /\ pc' = [pc EXCEPT ![w] = "chanWoken"]
                  /\ loc' = [loc EXCEPT ![w] = Woken(@, v, NoErr, ch.sent, "send")]
    /\ UNCHANGED <<cfg, cursor, remain, stopped, mutex, seen, extra, log, ret,
                   anyStop, anyFail, upPulls, results, value, ctxDone, fin>>

\* defer close(c)
ChanClose ==
    /\ cfg.kind = "chan"
    /\ cfg.impl # "nil"
    /\ ~ch.closed
    /\ ch.ready = <<>>
    /\ ch.sent = Len(cfg.source)
    /\ ch' = [ch EXCEPT !.closed = TRUE]
    /\ WakeAll("close")
    /\ UNCHANGED <<cfg, cursor, remain, stopped, mutex, seen, extra, log, ret,
                   anyStop, anyFail, upPulls, results, value, ctxDone, fin>>

\* cancel()
CtxCancel ==
    /\ cfg.kind = "chan"
    /\ ~ctxDone
    /\ ctxDone' = TRUE
    /\ WakeAll("cancel")
    /\ UNCHANGED <<cfg, cursor, remain, stopped, mutex, seen, extra, log, ret,
                   anyStop, anyFail, upPulls, results, value, ch, fin>>

\* case <-ctx.Done() of FromChan can proceed; the consumer of ToChan's
\* channel reads it under context.Background()
ChanCtxDone == cfg.kind = "chan" /\ ctxDone

\* select: case value, more := <-source can proceed when a sender is ready or
\* the channel is closed
ChanCanRecv(c) == c.ready # <<>> \/ c.closed

\* a receive takes the value of the blocked sender off the channel
ChanPeek(q) == q
ChanTake(q) == Tail(q)

\* select chose case value, more := <-source:
\* if !more { return value, ErrStopIt }; return value, nil
ChanRecv(w) ==
    /\ pc[w] = "chanSelect"
    /\ ChanCanRecv(ch)
    /\ IF ch.ready # <<>>
       THEN /\ ch' = [ch EXCEPT !.ready = ChanTake(@)]
            /\ Return(w, Head(ch.ready), NoErr, ch.sent - 1, loc[w])
       ELSE /\ ch' = ch
            /\ Return(w, Empty, ErrStopIt, ch.sent, loc[w])
    /\ UNCHANGED <<cfg, cursor, remain, stopped, mutex, extra, upPulls, results,
                   value, ctxDone, fin>>

\* select chose case <-ctx.Done(): return empty, ErrStopIt.  When both cases
\* can proceed select picks either one.
ChanDone(w) ==
    /\ pc[w] = "chanSelect"
    /\ ChanCtxDone
    /\ Return(w, Empty, ErrStopIt, ch.sent, loc[w])
    /\ UNCHANGED <<cfg, cursor, remain, stopped, mutex, extra, upPulls, results,
                   value, ch, ctxDone, fin>>

\* no case of the select can proceed: the goroutine parks
ChanPark(w) ==
    /\ pc[w] = "chanSelect"
    /\ ~ChanCanRecv(ch)
    /\ ~ChanCtxDone
    /\ Goto(w, "chanParked", loc[w])
    /\ UNCHANGED <<cfg, cursor, remain, stopped, mutex, extra, upPulls, results,
                   value, ch, ctxDone, fin>>

\* a woken goroutine runs again and returns what woke it
ChanWake(w) ==
    /\ pc[w] = "chanWoken"
    /\ Return(w, loc[w].vals[1], loc[w].err, loc[w].c, loc[w])
    /\ UNCHANGED <<cfg, cursor, remain, stopped, mutex, extra, upPulls, results,
                   value, ch, ctxDone, fin>>

InitChan ==
    /\ InitCommon
    /\ value = 0
    /\ \E S \in Slices, n \in {1, NumWorkers}, made \in {"make", "nil"} :
          /\ made = "nil" => S = <<>>
          /\ cfg = [Cfg0 EXCEPT !.kind = "chan", !.impl = made, !.up = "chan",
                                !.source = S, !.consumers = n]
    /\ remain = 0

NextChan ==
    \/ ChanSend
    \/ ChanClose
    \/ CtxCancel
    \/ \E w \in Workers :
          \/ Start(w)
          \/ ChanRecv(w)
          \/ ChanDone(w)
          \/ ChanPark(w)
          \/ ChanWake(w)

SpecChan == InitChan /\ [][NextChan]_vars

\* The cancellation test: consumers that stop pulling at their first stop
\* signal, over a nil channel or a producer with at most one value.
StartOnce(w) == ~seen[w] /\ Start(w)

InitChanFair ==
    /\ InitChan
    /\ Len(cfg.source) <= 1

NextChanFair ==
    \/ ChanSend
    \/ ChanClose
    \/ CtxCancel
    \/ \E w \in Workers :
          \/ StartOnce(w)
          \/ ChanRecv(w)
          \/ ChanDone(w)
          \/ ChanPark(w)
          \/ ChanWake(w)

\* a goroutine that can run does run: the select and the return of a woken
\* goroutine are not postponed for ever
SpecChanFair ==
    /\ InitChanFair
    /\ [][NextChanFair]_vars
    /\ \A w \in Workers :
          /\ WF_vars(ChanRecv(w) \/ ChanDone(w) \/ ChanPark(w))
          /\ WF_vars(ChanWake(w))

\* ------------------------------------------------------------------ claims on FromChan
\* C11: once the context has been cancelled and a pull has returned ErrStopIt,
\* every pull started after that returns ErrStopIt, also when the producer is
\* ready to send.
C11_ChanMonotonic ==
    cfg.kind = "chan" =>
        \A w \in Workers :
            (pc[w] = "idle" /\ loc[w].late /\ loc[w].cancelled) => ret[w] = ErrStopIt

\* C26: while the context is not cancelled, every value sent on the channel
\* is returned by exactly one pull; one consumer gets them in send order; a
\* pull started after the producer closed the channel returns ErrStopIt; and
\* when every consumer has been stopped all sent values have been delivered.
C26_ChanDelivers ==
    (cfg.kind = "chan" /\ ~ctxDone) =>
        /\ \A i, j \in 1..Len(log) : log[i].c = log[j].c => i = j
        /\ \A i \in 1..Len(log) :
              /\ log[i].c \in 0..(ch.sent - 1)
              /\ log[i].vals = <<cfg.source[log[i].c + 1]>>
        /\ cfg.consumers = 1 => \A i \in 1..Len(log) : log[i].c = i - 1
        /\ \A w \in Workers : (pc[w] = "idle" /\ loc[w].closed) => ret[w] = ErrStopIt
        /\ AllStopped => (ch.closed /\ Len(log) = Len(cfg.source))

\* two consumers got the two values and returned them in the opposite order;
\* both were then stopped by the close
C26_Witness ==
    /\ cfg.kind = "chan" /\ ~ctxDone /\ ch.closed
    /\ AllStopped
    /\ Len(log) = 2
    /\ log[1].c = 1 /\ log[2].c = 0
    /\ \E w \in Workers : loc[w].closed /\ ret[w] = ErrStopIt

\* C27: a pull that is parked in the select with nothing to receive when the
\* context is cancelled returns ErrStopIt, and once the context is cancelled
\* no pull stays inside the select for ever (a nil channel included).
C27_CancelUnblocks ==
    \A w \in Workers :
        /\ (pc[w] # "idle" /\ ctxDone) ~> (pc[w] = "idle")
        /\ (pc[w] = "chanWoken" /\ loc[w].by = "cancel")
              ~> (pc[w] = "idle" /\ loc[w].by = "cancel" /\ ret[w] = ErrStopIt)

\* a pull on a nil channel was parked, the cancel woke it and it returned
C27_Witness ==
    /\ cfg.kind = "chan" /\ cfg.impl = "nil"
    /\ ctxDone
    /\ \E w \in Workers : pc[w] = "idle" /\ loc[w].by = "cancel" /\ ret[w] = ErrStopIt

\* ------------------------------------------------------------------ safeSliceIterator (struct based FromSliceSafe)
\* if cursor >= it.len || cursor < 0
SafeSliceIterOut(c, l) == c >= l \/ c < 0
\* it.cursor.Store(-1): the cursor after the store
SafeSliceIterPin(l) == 0 - 1

\* cursor := it.cursor.Add(1) - 1; in bounds it returns it.source[cursor]
SafeSliceIterAdd(w) ==
    /\ pc[w] = "srcCall"
    /\ cfg.up = "sliceIter"
    /\ LET c == SafeSliceClaim(cursor[1])
       IN /\ cursor' = [cursor EXCEPT ![1] = SafeSliceAdd(@)]
          /\ IF SafeSliceIterOut(c, Len(cfg.source))
             THEN Goto(w, "srcStore", [loc[w] EXCEPT !.c = c, !.touched = TRUE])
             ELSE Return(w, SafeSliceGet(cfg.source, c), NoErr, c,
                         [loc[w] EXCEPT !.touched = TRUE])
    /\ UNCHANGED <<cfg, remain, stopped, mutex, extra, upPulls, results,
                   value, ch, ctxDone, fin>>

\* out of bounds: it.cursor.Store(-1); return empty, ErrStopIt
SafeSliceIterStore(w) ==
    /\ pc[w] = "srcStore"
    /\ cfg.up = "sliceIter"
    /\ cursor' = [cursor EXCEPT ![1] = SafeSliceIterPin(Len(cfg.source))]
    /\ Return(w, Empty, ErrStopIt, loc[w].c, loc[w])
    /\ UNCHANGED <<cfg, remain, stopped, mutex, extra, upPulls, results,
                   value, ch, ctxDone, fin>>

InitSliceIter ==
    /\ InitCommon
    /\ value = 0
    /\ \E S \in Slices :
          cfg = [Cfg0 EXCEPT !.impl = "struct", !.up = "sliceIter", !.source = S]
    /\ remain = 0

NextSliceIter ==
    \E w \in Workers :
        \/ Start(w)
        \/ SafeSliceIterAdd(w)
        \/ SafeSliceIterStore(w)

SpecSliceIter == InitSliceIter /\ [][NextSliceIter]_vars

\* ------------------------------------------------------------------ claims on safeSliceIterator
\* C12: G workers pulling the struct based safeSliceIterator over a slice of
\* length L >= 1: a pull started after some pull returned ErrStopIt returns no
\* element, and when every worker has been stopped exactly L pulls succeeded.
C12_SliceIterContract ==
    (cfg.up = "sliceIter" /\ Len(cfg.source) >= 1) =>
        /\ \A w \in Workers : (pc[w] = "idle" /\ loc[w].late) => ret[w] = ErrStopIt
        /\ AllStopped => Len(log) = Len(cfg.source)

\* ------------------------------------------------------------------ Sequence, SequenceSafe
Abs(x) == IF x < 0 THEN 0 - x ELSE x

\* Sequence: value: start - step
SequenceNewAtStart(start, step) == start
SequenceNew(start, step) == Wrap(start - step)

\* SequenceSafe: v := &atomic.Int64{}; v.Add(-int64(step))
SequenceSafeNew(start, step) == Wrap(0 + Wrap(0 - step))

\* it.value += it.step, and it.value.Add(it.step)
SeqAddLost(v, step) == IF v = Wrap(step) THEN v ELSE Wrap(v + step)
SeqAdd(v, step) == Wrap(v + step)

\* seqIterator.Next, called by one goroutine: it.value += it.step; return it.value, nil
SeqIterNext ==
    /\ cfg.kind = "sequence"
    /\ cfg.impl = "plain"
    /\ Len(results) < SeqPulls
    /\ value' = SeqAdd(value, cfg.step)
    /\ results' = Append(results, [v |-> value', err |-> NoErr, w |-> 1])
    /\ UNCHANGED <<cfg, cursor, remain, stopped, mutex, pc, loc, seen, extra, log, ret,
                   anyStop, anyFail, upPulls, ch, ctxDone, fin>>

\* safeSeqIterator.Next, called by worker w:
\* value := it.value.Add(it.step); return int(value), nil
SafeSeqIterNext(w) ==
    /\ cfg.kind = "sequence"
    /\ cfg.impl = "safe"
    /\ Len(results) < SeqPulls
    /\ value' = SeqAdd(value, cfg.step)
    /\ results' = Append(results, [v |-> value', err |-> NoErr, w |-> w])
    /\ UNCHANGED <<cfg, cursor, remain, stopped, mutex, pc, loc, seen, extra, log, ret,
                   anyStop, anyFail, upPulls, ch, ctxDone, fin>>

InitGen ==
    /\ InitCommon
    /\ \E impl \in {"plain", "safe"}, start \in Ints, step \in Ints :
          /\ cfg = [Cfg0 EXCEPT !.kind = "sequence", !.impl = impl, !.up = "none",
                                !.start = start, !.step = step]
          /\ value = IF impl = "plain" THEN SequenceNew(start, step)
                     ELSE SequenceSafeNew(start, step)
    /\ remain = 0

NextGen ==
    \/ SeqIterNext
    \/ \E w \in Workers : SafeSeqIterNext(w)

SpecGen == InitGen /\ [][NextGen]_vars

\* ------------------------------------------------------------------ claims on Sequence and SequenceSafe
\* the pulls so far were all made by one goroutine
OneThread == \A i, j \in 1..Len(results) : results[i].w = results[j].w

\* C13: pulled on one thread, the k-th pull (k from 0) of SequenceSafe(start,
\* step) returns start + k*step with wraparound, as Sequence(start, step) does.
C13_SafeSameProgression ==
    (cfg.kind = "sequence" /\ cfg.impl = "safe" /\ OneThread) =>
        \A i \in 1..Len(results) :
            results[i].v = Wrap(cfg.start + (i - 1) * cfg.step)

\* C14 as stated: for SequenceSafe(0, step) pulled by G workers, the pull that
\* follows N completed pulls returns N*step (in w-bit arithmetic), and for
\* step # 0 no two pulls returned the same value.
C14_NoLostUpdate ==
    (cfg.kind = "sequence" /\ cfg.impl = "safe" /\ cfg.start = 0) =>
        /\ \A i \in 1..Len(results) : results[i].v = Wrap((i - 1) * cfg.step)
        /\ cfg.step # 0 =>
              \A i, j \in 1..Len(results) : results[i].v = results[j].v => i = j

\* C14, amended: for SequenceSafe(0, step) pulled by G workers, the pull that
\* follows N completed pulls returns N*step in w-bit arithmetic, and for
\* step # 0 the first N pulls returned pairwise different values as long as
\* (N - 1) * |step| < 2^w, that is until the progression wraps onto itself.
C14_NoLostUpdateUntilWrap ==
    (cfg.kind = "sequence" /\ cfg.impl = "safe" /\ cfg.start = 0) =>
        /\ \A i \in 1..Len(results) : results[i].v = Wrap((i - 1) * cfg.step)
        /\ cfg.step # 0 =>
              \A i, j \in 1..Len(results) :
                  (i < j /\ (j - 1) * Abs(cfg.step) < 2^IntBits) =>
                      results[i].v # results[j].v

\* three pulls shared by two workers, on a progression that has wrapped
C14_Witness ==
    /\ cfg.kind = "sequence" /\ cfg.impl = "safe" /\ cfg.start = 0
    /\ cfg.step = MaxInt
    /\ Len(results) = 3
    /\ results[1].w # results[2].w
    /\ results[3].v = Wrap(2 * MaxInt)
    /\ results[3].v # 2 * MaxInt

\* C15: the k-th pull (k from 0) of Sequence(start, step) returns start + k*step
\* reduced to the signed w-bit range, for every start and step.
C15_SequenceWraps ==
    (cfg.kind = "sequence" /\ cfg.impl = "plain") =>
        \A i \in 1..Len(results) :
            /\ results[i].v = Wrap(cfg.start + (i - 1) * cfg.step)
            /\ results[i].v \in Ints
            /\ results[i].err = NoErr

\* Sequence(maxInt, 1) has yielded maxInt, minInt, minInt + 1
C15_Witness ==
    /\ cfg.kind = "sequence" /\ cfg.impl = "plain"
    /\ cfg.start = MaxInt /\ cfg.step = 1
    /\ Len(results) = 3
    /\ results[1].v = MaxInt /\ results[2].v = MinInt /\ results[3].v = MinInt + 1

\* ------------------------------------------------------------------ Combine, Pairs and Limit pulled by one caller
\* the loop of Combine over FromSlice sources, from the k-th source on:
\* v, err := source(); if err != nil { return nil, err }; values = append(values, v)
RECURSIVE CombineLoop(_, _, _, _)
CombineLoop(srcs, curs, k, vals) ==
    IF ~CombineMore(k - 1, Len(srcs))
    THEN [vals |-> vals, err |-> NoErr, cursor |-> curs]
    ELSE LET u == FromSliceNext(srcs[k], curs[k])
             next == [curs EXCEPT ![k] = u.cursor]
         IN IF u.err # NoErr
            THEN [vals |-> <<>>, err |-> u.err, cursor |-> next]
            ELSE CombineLoop(srcs, next, k + 1, Append(vals, u.v))

\* function based Combine / CombineSafe:
\* if len(iterators) == 0 { return values, ErrStopIt }, then the loop
CombineNext(srcs, curs) ==
    IF CombineEmpty(Len(srcs))
    THEN [vals |-> <<>>, err |-> ErrStopIt, cursor |-> curs]
    ELSE CombineLoop(srcs, curs, 1, <<>>)

\* struct based combineIterator.Next / safeCombineIterator.Next: the loop only
CombineIterNext(srcs, curs) == CombineLoop(srcs, curs, 1, <<>>)

\* one pull of Combine(FromSlice(S_1), ..., FromSlice(S_n)); the safe variants
\* lock the mutex on entry and unlock it on return
CombinePull ==
    /\ cfg.kind = "seqcombine"
    /\ Len(results) < SeqPulls
    /\ cfg.safe => MutexFree(mutex)
    /\ LET r == IF cfg.impl = "func" THEN CombineNext(cfg.srcs, cursor)
                ELSE CombineIterNext(cfg.srcs, cursor)
       IN /\ cursor' = r.cursor
          /\ results' = Append(results, [vals |-> r.vals, err |-> r.err])
    /\ UNCHANGED <<cfg, remain, stopped, mutex, pc, loc, seen, extra, log, ret,
                   anyStop, anyFail, upPulls, value, ch, ctxDone, fin>>

\* Combine / CombineSafe / combineIterator / safeCombineIterator over 0..NumSources slices
InitPipeCombine ==
    \E impl \in {"func", "struct"}, safe \in BOOLEAN, n \in 0..NumSources :
        \E srcs \in [1..n -> Slices] :
            cfg = [Cfg0 EXCEPT !.kind = "seqcombine", !.impl = impl, !.safe = safe,
                               !.nsrc = n, !.srcs = srcs]

\* if err != nil { return Pair{}, err } after left(): right() is called only
\* when left() returned no error
PairsRightAlways(err) == TRUE
PairsRight(err) == err = NoErr

\* one pull of Pairs(Map(FromSlice(L), m), FromSlice(R)) with the cursors lc, rc
PairsNextUnread(m, L, lc, R, rc) ==
    LET u == FromSliceNext(L, lc)
        l == MapNext(m, u.v, u.err)
        r == FromSliceNext(R, rc)
    IN IF l.err # NoErr
       THEN [vals |-> <<>>, err |-> l.err, lerr |-> l.err, lcur |-> u.cursor,
             rcur |-> rc, rcalls |-> 0]
       ELSE IF r.err # NoErr
            THEN [vals |-> <<>>, err |-> r.err, lerr |-> l.err, lcur |-> lc,
                  rcur |-> r.cursor, rcalls |-> 1]
            ELSE [vals |-> <<l.v, r.v>>, err |-> NoErr, lerr |-> l.err,
                  lcur |-> u.cursor, rcur |-> r.cursor, rcalls |-> 1]
PairsNext(m, L, lc, R, rc) ==
    LET u == FromSliceNext(L, lc)
        l == MapNext(m, u.v, u.err)
        r == FromSliceNext(R, rc)
    IN IF ~PairsRight(l.err)
       THEN [vals |-> <<>>, err |-> l.err, lerr |-> l.err, lcur |-> u.cursor,
             rcur |-> rc, rcalls |-> 0]
       ELSE IF r.err # NoErr
            THEN [vals |-> <<>>, err |-> r.err, lerr |-> l.err, lcur |-> u.cursor,
                  rcur |-> r.cursor, rcalls |-> 1]
            ELSE [vals |-> <<l.v, r.v>>, err |-> NoErr, lerr |-> l.err,
                  lcur |-> u.cursor, rcur |-> r.cursor, rcalls |-> 1]

\* one pull of Pairs / PairsSafe; upPulls counts the calls of right()
PairsPull ==
    /\ cfg.kind = "seqpairs"
    /\ Len(results) < SeqPulls
    /\ cfg.safe => MutexFree(mutex)
    /\ LET r == PairsNext(cfg.mapping, cfg.srcs[1], cursor[1], cfg.srcs[2], cursor[2])
       IN /\ cursor' = [cursor EXCEPT ![1] = r.lcur, ![2] = r.rcur]
          /\ upPulls' = upPulls + r.rcalls
          /\ results' = Append(results, [vals |-> r.vals, err |-> r.err, lerr |-> r.lerr,
                                         rcalls |-> r.rcalls,
                                         rmoved |-> r.rcur # cursor[2]])
    /\ UNCHANGED <<cfg, remain, stopped, mutex, pc, loc, seen, extra, log, ret,
                   anyStop, anyFail, value, ch, ctxDone, fin>>

InitPipePairs ==
    \E safe \in BOOLEAN, m \in Mappings, L \in Slices, R \in Slices :
        cfg = [Cfg0 EXCEPT !.kind = "seqpairs", !.safe = safe, !.mapping = m,
                           !.nsrc = 2, !.srcs = <<L, R>>]

\* Limit(FromSlice(S), n), one pull with the budget rem and the cursor cur:
\* if remain <= 0 { return empty, ErrStopIt }; v, err := source();
\* if err == nil { remain-- } else { remain = 0 }
LimitNext(S, cur, rem) ==
    IF LimitDone(rem)
    THEN [v |-> Empty, err |-> ErrStopIt, cursor |-> cur, remain |-> rem]
    ELSE LET u == FromSliceNext(S, cur)
         IN [v |-> u.v, err |-> u.err, cursor |-> u.cursor,
             remain |-> IF u.err = NoErr THEN LimitDecr(rem) ELSE LimitPinned(rem)]

\* LimitSafe(FromSlice(S), n), one pull: remainLocal := remain.Add(-1);
\* if remainLocal < 0 { remain.Store(0); return empty, ErrStopIt };
\* v, err := source(); if err != nil { remain.Store(0) }
LimitSafeNext(S, cur, rem) ==
    LET rl == LimitDecr(rem)
    IN IF LimitExhausted(rl)
       THEN [v |-> Empty, err |-> ErrStopIt, cursor |-> cur, remain |-> LimitPinned(rl)]
       ELSE LET u == FromSliceNext(S, cur)
            IN [v |-> u.v, err |-> u.err, cursor |-> u.cursor,
                remain |-> IF u.err # NoErr THEN LimitPinned(rl) ELSE rl]

\* one pull of Limit / LimitSafe over FromSlice
LimitPull ==
    /\ cfg.kind = "seqlimit"
    /\ Len(results) < SeqPulls
    /\ LET r == IF cfg.safe THEN LimitSafeNext(cfg.source, cursor[1], remain)
                ELSE LimitNext(cfg.source, cursor[1], remain)
       IN /\ cursor' = [cursor EXCEPT ![1] = r.cursor]
          /\ remain' = r.remain
          /\ results' = Append(results, [v |-> r.v, err |-> r.err])
    /\ UNCHANGED <<cfg, stopped, mutex, pc, loc, seen, extra, log, ret,
                   anyStop, anyFail, upPulls, value, ch, ctxDone, fin>>

InitPipeLimit ==
    \E safe \in BOOLEAN, S \in Slices, n \in Limits :
        cfg = [Cfg0 EXCEPT !.kind = "seqlimit", !.safe = safe, !.source = S, !.limit = n]

InitPipe ==
    /\ InitCommon
    /\ value = 0
    /\ \/ InitPipeCombine
       \/ InitPipePairs
       \/ InitPipeLimit
    /\ remain = IF cfg.kind = "seqlimit" THEN cfg.limit ELSE 0

NextPipe ==
    \/ CombinePull
    \/ PairsPull
    \/ LimitPull

SpecPipe == InitPipe /\ [][NextPipe]_vars

\* ------------------------------------------------------------------ claims on Combine, Pairs and Limit pulled by one caller
\* C16: function based Combine and CombineSafe built from zero sources return
\* ErrStopIt and no group on the first pull and on every later pull.
C16_CombineZeroStops ==
    (cfg.kind = "seqcombine" /\ cfg.impl = "func" /\ cfg.nsrc = 0) =>
        \A i \in 1..Len(results) : results[i] = [vals |-> <<>>, err |-> ErrStopIt]

C16_Witness ==
    /\ cfg.kind = "seqcombine" /\ cfg.impl = "func" /\ cfg.nsrc = 0 /\ cfg.safe
    /\ Len(results) >= 2
    /\ results[2].err = ErrStopIt

\* C17: the struct based combineIterator and safeCombineIterator built from
\* zero sources return ErrStopIt on their first pull.
C17_CombineIterZeroStops ==
    (cfg.kind = "seqcombine" /\ cfg.impl = "struct" /\ cfg.nsrc = 0) =>
        (Len(results) >= 1 => results[1].err = ErrStopIt)

\* the length of the shortest source
MinLen(srcs) ==
    CHOOSE m \in 0..(MaxLen + 1) :
        /\ \E j \in 1..Len(srcs) : Len(srcs[j]) = m
        /\ \A j \in 1..Len(srcs) : Len(srcs[j]) >= m

\* C18: Combine / CombineSafe over n >= 1 FromSlice sources, pulled by one
\* caller: the first m = min len(S_j) pulls return the groups
\* <<S_1[i], ..., S_n[i]>> in order and every later pull returns ErrStopIt.
C18_CombineShortest ==
    (cfg.kind = "seqcombine" /\ cfg.nsrc >= 1) =>
        \A i \in 1..Len(results) :
            IF i <= MinLen(cfg.srcs)
            THEN results[i] = [vals |-> [j \in 1..cfg.nsrc |-> cfg.srcs[j][i]],
                               err |-> NoErr]
            ELSE results[i] = [vals |-> <<>>, err |-> ErrStopIt]

\* two sources of different lengths: one group, then the stop of the shorter
\* one while the longer one still has an element
C18_Witness ==
    /\ cfg.kind = "seqcombine" /\ cfg.impl = "func" /\ cfg.nsrc = 2
    /\ Len(cfg.srcs[1]) = 2 /\ Len(cfg.srcs[2]) = 1
    /\ cfg.srcs[1][1] # cfg.srcs[2][1]
    /\ Len(results) = 2
    /\ results[1].err = NoErr /\ results[2].err = ErrStopIt

\* C19: in every round of Pairs / PairsSafe in which left() returns a stop
\* signal, right() is not called and its cursor does not move, and the round
\* returns the signal of left().
C19_PairsLeftFirst ==
    cfg.kind = "seqpairs" =>
        \A i \in 1..Len(results) :
            results[i].lerr # NoErr =>
                /\ results[i].rcalls = 0
                /\ ~results[i].rmoved
                /\ results[i].err = results[i].lerr
                /\ results[i].vals = <<>>

\* left failed with a cause while right still had an element to give
C19_Witness ==
    /\ cfg.kind = "seqpairs"
    /\ Len(results) >= 2
    /\ results[1].err = NoErr
    /\ results[2].lerr = ErrCause /\ results[2].err = ErrCause
    /\ cursor[2] < Len(cfg.srcs[2])
    /\ upPulls = 1

\* the number of elements Limit(FromSlice(S), N) lets through
SeqPrefixLen == Min(Max(cfg.limit, 0), Len(cfg.source))

\* C20: Limit / LimitSafe over FromSlice(S), pulled by one caller: the first
\* min(max(N, 0), len(S)) pulls return the elements of S in order and every
\* later pull returns ErrStopIt; a negative N lets nothing through.
C20_LimitPrefix ==
    cfg.kind = "seqlimit" =>
        \A i \in 1..Len(results) :
            IF i <= SeqPrefixLen
            THEN results[i] = [v |-> cfg.source[i], err |-> NoErr]
            ELSE results[i] = [v |-> Empty, err |-> ErrStopIt]

\* the limit cut the slice short
C20_Witness ==
    /\ cfg.kind = "seqlimit"
    /\ cfg.limit = 1 /\ Len(cfg.source) = 2
    /\ Len(results) = 3
    /\ results[1].err = NoErr /\ results[2].err = ErrStopIt /\ results[3].err = ErrStopIt

\* ------------------------------------------------------------------ Filter, and the pipelines handed to a finalizer
\* predicates handed to Filter
Preds == [Values -> BOOLEAN]

\* FromSliceSafe pulled by one caller: the claim, then the store or the element
SafeSliceNext(S, cur) ==
    LET c == SafeSliceClaim(cur)
    IN IF SafeSliceOut(c, Len(S))
       THEN [v |-> Empty, err |-> ErrStopIt, cursor |-> SafeSlicePin(Len(S))]
       ELSE [v |-> SafeSliceGet(S, c), err |-> NoErr, cursor |-> SafeSliceAdd(cur)]

\* if filter(v)
FilterKeepAll(P, v) == TRUE
FilterKeep(P, v) == P[v]

\* Filter(FromSlice(S), P), one pull: for v, err = source(); err == nil;
\* v, err = source() { if filter(v) { return v, nil } }; return v, err.
\* tested gathers the indices of the elements handed to the predicate.
RECURSIVE FilterNext(_, _, _, _)
FilterNext(P, S, cur, tested) ==
    LET u == FromSliceNext(S, cur)
    IN IF u.err # NoErr
       THEN [v |-> u.v, err |-> u.err, cursor |-> u.cursor, tested |-> tested]
       ELSE IF FilterKeep(P, u.v)
            THEN [v |-> u.v, err |-> NoErr, cursor |-> u.cursor,
                  tested |-> Append(tested, cur)]
            ELSE FilterNext(P, S, u.cursor, Append(tested, cur))

\* one pull of the pipeline cfg.up over cfg.source, its cursor at cur
PipeNext(cur) ==
    CASE cfg.up = "slice" ->
            LET u == FromSliceNext(cfg.source, cur)
            IN [v |-> u.v, err |-> u.err, cursor |-> u.cursor, tested |-> <<>>]
      [] cfg.up = "safeslice" ->
            LET u == SafeSliceNext(cfg.source, cur)
            IN [v |-> u.v, err |-> u.err, cursor |-> u.cursor, tested |-> <<>>]
      [] cfg.up = "map" ->
            LET u == FromSliceNext(cfg.source, cur)
                r == MapNext(cfg.mapping, u.v, u.err)
            IN [v |-> r.v, err |-> r.err, cursor |-> u.cursor, tested |-> <<>>]
      [] cfg.up = "filter" ->
            FilterNext(cfg.pred, cfg.source, cur, <<>>)
      [] cfg.up = "gen" ->
            [v |-> GenValue, err |-> NoErr, cursor |-> cur, tested |-> <<>>]

\* ------------------------------------------------------------------ Reduce, ToSlice
NilSlice == "nil slice"
\* the init values and the functions handed to Reduce
Inits == {0, 1}
ReduceFns == {"mul", "horner"}
\* fn(v, acc)
ReduceFn(f, v, acc) == IF f = "mul" THEN acc * v ELSE 2 * acc + v

\* errors.Is(err, ErrStopIt)
IsStopIt(err) == err = ErrStopIt

\* Reduce after the loop: if !errors.Is(err, ErrStopIt) { var empty K; return empty, err };
\* return acc, nil
ReduceReturnPartial(acc, err) ==
    [out |-> acc, err |-> IF IsStopIt(err) THEN NoErr ELSE err]
ReduceReturn(acc, err) ==
    IF ~IsStopIt(err) THEN [out |-> Empty, err |-> err] ELSE [out |-> acc, err |-> NoErr]

\* ToSlice after the loop: if !errors.Is(err, ErrStopIt) { return nil, err };
\* return slice, nil
ToSliceReturnPartial(slice, err) ==
    [out |-> slice, err |-> IF IsStopIt(err) THEN NoErr ELSE err]
ToSliceReturn(slice, err) ==
    IF ~IsStopIt(err) THEN [out |-> NilSlice, err |-> err] ELSE [out |-> slice, err |-> NoErr]

\* Reduce(it, init, fn) is called: acc := init
ReduceCall ==
    /\ cfg.kind = "fin"
    /\ fin.pc = "none"
    /\ \E init \in Inits, f \in ReduceFns :
          fin' = [pc |-> "loop", kind |-> "Reduce", fn |-> f, init |-> init,
                  acc |-> init, out |-> Empty, err |-> NoErr]
    /\ UNCHANGED <<cfg, cursor, remain, stopped, mutex, pc, loc, seen, extra, log, ret,
                   anyStop, anyFail, upPulls, results, value, ch, ctxDone>>

\* ToSlice(it) is called: slice := make([]T, 0)
ToSliceCall ==
    /\ cfg.kind = "fin"
    /\ fin.pc = "none"
    /\ fin' = [pc |-> "loop", kind |-> "ToSlice", fn |-> "none", init |-> 0,
               acc |-> <<>>, out |-> Empty, err |-> NoErr]
    /\ UNCHANGED <<cfg, cursor, remain, stopped, mutex, pc, loc, seen, extra, log, ret,
                   anyStop, anyFail, upPulls, results, value, ch, ctxDone>>

\* the pull r of the pipeline, made by its one caller: the cursor moves, the
\* pull and the elements handed to a predicate are recorded
Pulled(r) ==
    /\ cursor' = [cursor EXCEPT ![1] = r.cursor]
    /\ results' = Append(results, [v |-> r.v, err |-> r.err])
    /\ log' = log \o [i \in 1..Len(r.tested) |->
                         [vals |-> <<cfg.source[r.tested[i] + 1]>>, c |-> r.tested[i]]]

\* one round of Reduce's loop: v, err = it(); err == nil: acc = fn(v, acc);
\* otherwise the loop ends and Reduce returns
ReducePull ==
    /\ fin.pc = "loop"
    /\ fin.kind = "Reduce"
    /\ LET r == PipeNext(cursor[1])
       IN /\ Pulled(r)
          /\ fin' = IF r.err = NoErr
                    THEN [fin EXCEPT !.acc = ReduceFn(fin.fn, r.v, @)]
                    ELSE LET x == ReduceReturn(fin.acc, r.err)
                         IN [fin EXCEPT !.pc = "done", !.out = x.out, !.err = x.err]
    /\ UNCHANGED <<cfg, remain, stopped, mutex, pc, loc, seen, extra, ret,
                   anyStop, anyFail, upPulls, value, ch, ctxDone>>

\* one round of ToSlice's loop: v, err = it(); err == nil: slice = append(slice, v);
\* otherwise the loop ends and ToSlice returns
ToSlicePull ==
    /\ fin.pc = "loop"
    /\ fin.kind = "ToSlice"
    /\ LET r == PipeNext(cursor[1])
       IN /\ Pulled(r)
          /\ fin' = IF r.err = NoErr
                    THEN [fin EXCEPT !.acc = Append(@, r.v)]
                    ELSE LET x == ToSliceReturn(fin.acc, r.err)
                         IN [fin EXCEPT !.pc = "done", !.out = x.out, !.err = x.err]
    /\ UNCHANGED <<cfg, remain, stopped, mutex, pc, loc, seen, extra, ret,
                   anyStop, anyFail, upPulls, value, ch, ctxDone>>

\* the caller pulls the iterator again after the finalizer has returned
PullAfter ==
    /\ fin.pc = "done"
    /\ extra < MaxExtra
    /\ extra' = extra + 1
    /\ Pulled(PipeNext(cursor[1]))
    /\ UNCHANGED <<cfg, remain, stopped, mutex, pc, loc, seen, ret,
                   anyStop, anyFail, upPulls, value, ch, ctxDone, fin>>

\* ----------------------------------------------------------------------- Final
\* Final(it) wraps it in a finalIterator{base, last, err}.  fin holds the
\* struct; ret is what the last Next() returned and falses counts the calls of
\* Next() that returned false.

\* Next: if it.err != nil { return false }
FinalStoppedNever(err) == FALSE
FinalStopped(err) == err # NoErr

\* Stop() returns it.err
FinalStop(f) == f.err

\* Err(): nil when errors.Is(it.Stop(), ErrStopIt), it.Stop() otherwise
FinalErrRaw(f) == FinalStop(f)
FinalErr(f) == IF IsStopIt(FinalStop(f)) THEN NoErr ELSE FinalStop(f)

\* Final(it) is called: &finalIterator{base: it}
FinalCall ==
    /\ cfg.kind = "fin"
    /\ fin.pc = "none"
    /\ fin' = [pc |-> "final", kind |-> "Final", last |-> Empty, err |-> NoErr,
               ret |-> TRUE, falses |-> 0]
    /\ UNCHANGED <<cfg, cursor, remain, stopped, mutex, pc, loc, seen, extra, log, ret,
                   anyStop, anyFail, upPulls, results, value, ch, ctxDone>>

\* it.Next(); a caller that was told false calls it MaxExtra more times
FinalNext ==
    /\ cfg.kind = "fin"
    /\ fin.pc = "final"
    /\ fin.falses >= 1 => extra < MaxExtra
    /\ extra' = IF fin.falses >= 1 THEN extra + 1 ELSE extra
    /\ IF FinalStopped(fin.err)
       THEN /\ fin' = [fin EXCEPT !.ret = FALSE, !.falses = @ + 1]
            /\ UNCHANGED <<cursor, results, log>>
       ELSE LET r == PipeNext(cursor[1])
            IN /\ Pulled(r)
               /\ fin' = [fin EXCEPT !.last = r.v, !.err = r.err,
                                     !.ret = (r.err = NoErr),
                                     !.falses = IF r.err = NoErr THEN @ ELSE @ + 1]
    /\ UNCHANGED <<cfg, remain, stopped, mutex, pc, loc, seen, ret,
                   anyStop, anyFail, upPulls, value, ch, ctxDone>>

InitFin ==
    /\ InitCommon
    /\ value = 0
    /\ remain = 0
    /\ \E S \in Slices :
          \/ \E up \in {"slice", "safeslice"} :
                cfg = [Cfg0 EXCEPT !.kind = "fin", !.up = up, !.source = S]
          \/ \E m \in Mappings :
                cfg = [Cfg0 EXCEPT !.kind = "fin", !.up = "map", !.source = S,
                                   !.mapping = m]
          \/ \E P \in Preds :
                cfg = [Cfg0 EXCEPT !.kind = "fin", !.up = "filter", !.source = S,
                                   !.pred = P]

NextFin ==
    \/ ReduceCall
    \/ ToSliceCall
    \/ ReducePull
    \/ ToSlicePull
    \/ PullAfter
    \/ FinalCall
    \/ FinalNext

SpecFin == InitFin /\ [][NextFin]_vars

\* ------------------------------------------------------------------ claims on Map, Filter and the finalizers
\* the first position of S (from 1) at which mapping m raises a signal, or len(S) + 1
FirstRaise(m, S) ==
    CHOOSE k \in 1..(Len(S) + 1) :
        /\ k <= Len(S) => m[S[k]] # "ok"
        /\ \A i \in 1..(k - 1) : m[S[i]] = "ok"

\* C21: ToSlice(Map(FromSlice(S), M)) is M applied element-wise to S, in order;
\* when M raises ErrStopIt at the k-th element it is the first k - 1 mapped
\* elements, returned with no error.
C21_MapCollected ==
    (cfg.kind = "fin" /\ cfg.up = "map" /\ fin.pc = "done" /\ fin.kind = "ToSlice") =>
        LET k == FirstRaise(cfg.mapping, cfg.source)
        IN (k > Len(cfg.source) \/ cfg.mapping[cfg.source[k]] = ErrStopIt) =>
              /\ fin.err = NoErr
              /\ fin.out = [i \in 1..(k - 1) |-> cfg.source[i] + 10]

\* the mapping raised ErrStopIt at the second of two elements: one mapped element
C21_Witness ==
    /\ cfg.kind = "fin" /\ cfg.up = "map" /\ fin.pc = "done" /\ fin.kind = "ToSlice"
    /\ Len(cfg.source) = 2
    /\ cfg.mapping[cfg.source[1]] = "ok"
    /\ cfg.mapping[cfg.source[2]] = ErrStopIt
    /\ fin.out = <<cfg.source[1] + 10>>
    /\ fin.err = NoErr

\* the elements handed to the predicate, by index: how often index n was tested
TestedCount(n) == Cardinality({i \in 1..Len(log) : log[i].c = n})

\* C22: ToSlice(Filter(FromSlice(S), P)) is the sub-sequence of S that
\* satisfies P, in order, and P was called exactly once on every element of S.
C22_FilterCollected ==
    (cfg.kind = "fin" /\ cfg.up = "filter" /\ fin.pc = "done" /\ fin.kind = "ToSlice") =>
        /\ fin.err = NoErr
        /\ fin.out = SelectSeq(cfg.source, LAMBDA x : cfg.pred[x])
        /\ \A n \in 0..(Len(cfg.source) - 1) : TestedCount(n) = 1
        /\ Len(log) = Len(cfg.source)

\* the predicate dropped the first element and kept the second
C22_Witness ==
    /\ cfg.kind = "fin" /\ cfg.up = "filter" /\ fin.pc = "done" /\ fin.kind = "ToSlice"
    /\ Len(cfg.source) = 2
    /\ ~cfg.pred[cfg.source[1]] /\ cfg.pred[cfg.source[2]]
    /\ fin.out = <<cfg.source[2]>>
    /\ extra = MaxExtra

\* C23: ToSlice(FromSlice(S)) and ToSlice(FromSliceSafe(S)) on one thread
\* return S with no error, and every pull after the last element of S returns
\* ErrStopIt.
C23_SliceRoundTrip ==
    (cfg.kind = "fin" /\ cfg.up \in {"slice", "safeslice"}) =>
        /\ \A i \in 1..Len(results) :
              IF i <= Len(cfg.source)
              THEN results[i] = [v |-> cfg.source[i], err |-> NoErr]
              ELSE results[i] = [v |-> Empty, err |-> ErrStopIt]
        /\ (fin.pc = "done" /\ fin.kind = "ToSlice") =>
              (fin.out = cfg.source /\ fin.err = NoErr)

\* the safe source collected, then pulled once more
C23_Witness ==
    /\ cfg.kind = "fin" /\ cfg.up = "safeslice"
    /\ fin.pc = "done" /\ fin.kind = "ToSlice"
    /\ Len(cfg.source) = 2 /\ cfg.source[1] # cfg.source[2]
    /\ fin.out = cfg.source
    /\ Len(results) = Len(cfg.source) + 1 + MaxExtra

\* acc_0 = init, acc_(i+1) = fn(v_i, acc_i) over the first n pulls
RECURSIVE Fold(_, _, _)
Fold(f, init, n) ==
    IF n = 0 THEN init ELSE ReduceFn(f, results[n].v, Fold(f, init, n - 1))

\* the first pull that returned a signal
FirstStop == CHOOSE k \in 1..Len(results) :
                 results[k].err # NoErr /\ \A i \in 1..(k - 1) : results[i].err = NoErr

\* C24: Reduce returns the left fold of fn from init over the elements pulled
\* before the first signal, with no error, when that signal is ErrStopIt; for
\* any other signal it returns the zero value and that signal.
C24_ReduceFold ==
    (cfg.kind = "fin" /\ fin.pc = "done" /\ fin.kind = "Reduce") =>
        IF results[FirstStop].err = ErrStopIt
        THEN fin.err = NoErr /\ fin.out = Fold(fin.fn, fin.init, FirstStop - 1)
        ELSE fin.err = results[FirstStop].err /\ fin.out = Empty

\* a mapping failed at the second element: the accumulator was 2 * 1 + 11
C24_Witness ==
    /\ cfg.kind = "fin" /\ cfg.up = "map" /\ fin.pc = "done" /\ fin.kind = "Reduce"
    /\ fin.fn = "horner" /\ fin.init = 1
    /\ fin.acc = 13
    /\ results[2].err = ErrCause
    /\ fin.err = ErrCause /\ fin.out = Empty

\* C25: ToSlice returns the elements pulled before the first signal, in order
\* and with no error, when that signal is ErrStopIt; for any other signal it
\* returns a nil slice and that signal.
C25_ToSliceSplit ==
    (cfg.kind = "fin" /\ fin.pc = "done" /\ fin.kind = "ToSlice") =>
        IF results[FirstStop].err = ErrStopIt
        THEN /\ fin.err = NoErr
             /\ fin.out = [i \in 1..(FirstStop - 1) |-> results[i].v]
        ELSE fin.err = results[FirstStop].err /\ fin.out = NilSlice

\* one element collected, then the mapping failed
C25_Witness ==
    /\ cfg.kind = "fin" /\ cfg.up = "map" /\ fin.pc = "done" /\ fin.kind = "ToSlice"
    /\ fin.acc = <<11>>
    /\ results[2].err = ErrCause
    /\ fin.err = ErrCause /\ fin.out = NilSlice

\* ---------------------------------------------------------------------- ToChan
\* ToChan(ctx, it): c := make(chan T) and a goroutine that pulls it and
\* publishes every element on c until it returns an error or ctx is done; the
\* deferred close(c) runs when the goroutine returns.  fin is the goroutine:
\* pull (at it()), select (entering the select), blocked (parked in the select
\* with its send pending in ch.ready), exit (returned, close(c) deferred), gone.

\* the statement the goroutine reaches when it leaves the loop for reason why:
\* defer close(c) runs on every return
ToChanReturnNoDefer(why) == IF why = "cancel" THEN "gone" ELSE "exit"
ToChanReturn(why) == "exit"

\* the goroutine is parked in the select and its send has not been received
ToChanParkedNever(f, c) == FALSE
ToChanParked(f, c) == f.pc = "blocked" /\ c.ready # <<>>

\* ToChan is called: c := make(chan T); go func() { ... }()
ToChanCall ==
    /\ cfg.kind = "tochan"
    /\ fin.pc = "none"
    /\ fin' = [pc |-> "pull", kind |-> "ToChan", v |-> Empty, pulled |-> 0,
               delivered |-> 0, closes |-> 0, exit |-> "none", late |-> FALSE,
               woken |-> FALSE, calls |-> 0, from |-> 0]
    /\ UNCHANGED <<cfg, cursor, remain, stopped, mutex, pc, loc, seen, extra, log, ret,
                   anyStop, anyFail, upPulls, results, value, ch, ctxDone>>

\* v, err := it(); err == nil enters the select, anything else returns
ToChanPullAhead ==
    /\ cfg.kind = "tochan"
    /\ cfg.impl # "loop"
    /\ fin.pc = "pull"
    /\ LET r == PipeNext(cursor[1])
       IN /\ cursor' = [cursor EXCEPT ![1] = r.cursor]
          /\ fin' = IF r.err = NoErr
                    THEN [fin EXCEPT !.v = r.v, !.pulled = @ + 1]
                    ELSE [fin EXCEPT !.pc = ToChanReturn(r.err), !.exit = r.err]
    /\ UNCHANGED <<cfg, remain, stopped, mutex, pc, loc, seen, extra, log, ret,
                   anyStop, anyFail, upPulls, results, value, ch, ctxDone>>
ToChanPull ==
    /\ cfg.kind = "tochan"
    /\ cfg.impl # "loop"
    /\ fin.pc = "pull"
    /\ LET r == PipeNext(cursor[1])
       IN /\ cursor' = [cursor EXCEPT ![1] = r.cursor]
          /\ fin' = IF r.err = NoErr
                    THEN [fin EXCEPT !.pc = "select", !.v = r.v, !.pulled = @ + 1]
                    ELSE [fin EXCEPT !.pc = ToChanReturn(r.err), !.exit = r.err]
    /\ UNCHANGED <<cfg, remain, stopped, mutex, pc, loc, seen, extra, log, ret,
                   anyStop, anyFail, upPulls, results, value, ch, ctxDone>>

\* select, case c <- v can proceed: a receiver is parked on c and gets v
ToChanSend ==
    /\ cfg.kind = "tochan"
    /\ fin.pc = "select"
    /\ \E w \in Parked :
          /\ pc' = [pc EXCEPT ![w] = "chanWoken"]
          /\ loc' = [loc EXCEPT ![w] = Woken(@, fin.v, NoErr, ch.sent, "send")]
    /\ ch' = [ch EXCEPT !.sent = @ + 1]
    /\ fin' = [fin EXCEPT !.pc = "pull", !.delivered = @ + 1,
                          !.late = @ \/ ch.closed]
    /\ UNCHANGED <<cfg, cursor, remain, stopped, mutex, seen, extra, log, ret,
                   anyStop, anyFail, upPulls, results, value, ctxDone>>

\* select, case <-ctx.Done() can proceed: return
ToChanDone ==
    /\ cfg.kind = "tochan"
    /\ fin.pc = "select"
    /\ ctxDone
    /\ fin' = [fin EXCEPT !.pc = ToChanReturn("cancel"), !.exit = "cancel"]
    /\ UNCHANGED <<cfg, cursor, remain, stopped, mutex, pc, loc, seen, extra, log, ret,
                   anyStop, anyFail, upPulls, results, value, ch, ctxDone>>

\* select, no case can proceed: the goroutine parks with its send pending
ToChanBlock ==
    /\ cfg.kind = "tochan"
    /\ fin.pc = "select"
    /\ Parked = {}
    /\ ~ctxDone
    /\ ch' = [ch EXCEPT !.ready = <<fin.v>>, !.sent = @ + 1]
    /\ fin' = [fin EXCEPT !.pc = "blocked", !.late = @ \/ ch.closed]
    /\ UNCHANGED <<cfg, cursor, remain, stopped, mutex, pc, loc, seen, extra, log, ret,
                   anyStop, anyFail, upPulls, results, value, ctxDone>>

\* a receiver took the pending send: the select ends with case c <- v
ToChanSent ==
    /\ cfg.kind = "tochan"
    /\ fin.pc = "blocked"
    /\ ch.ready = <<>>
    /\ fin' = [fin EXCEPT !.pc = "pull", !.delivered = @ + 1]
    /\ UNCHANGED <<cfg, cursor, remain, stopped, mutex, pc, loc, seen, extra, log, ret,
                   anyStop, anyFail, upPulls, results, value, ch, ctxDone>>

\* cancel() of the context given to ToChan: a goroutine parked in the select
\* is woken with case <-ctx.Done(), its pending send is withdrawn
ToChanCancel ==
    /\ cfg.kind = "tochan"
    /\ ~ctxDone
    /\ ctxDone' = TRUE
    /\ IF ToChanParked(fin, ch)
       THEN /\ ch' = [ch EXCEPT !.ready = <<>>, !.sent = @ - 1]
            /\ fin' = [fin EXCEPT !.pc = ToChanReturn("cancel"), !.exit = "cancel",
                                  !.woken = TRUE]
       ELSE UNCHANGED <<ch, fin>>
    /\ UNCHANGED <<cfg, cursor, remain, stopped, mutex, pc, loc, seen, extra, log, ret,
                   anyStop, anyFail, upPulls, results, value>>

\* the deferred close(c); receivers parked on c are woken with more = false
ToChanExit ==
    /\ cfg.kind = "tochan"
    /\ fin.pc = "exit"
    /\ ch' = [ch EXCEPT !.closed = TRUE]
    /\ fin' = [fin EXCEPT !.pc = "gone", !.closes = @ + 1]
    /\ WakeAll("close")
    /\ UNCHANGED <<cfg, cursor, remain, stopped, mutex, seen, extra, log, ret,
                   anyStop, anyFail, upPulls, results, value, ctxDone>>

\* The consumer pulls FromChan(context.Background(), c); it may give up at any
\* time and gives up after MaxLen + 1 elements
RangeStart(w) == Len(log) <= MaxLen /\ Start(w)

InitToChan ==
    /\ InitCommon
    /\ value = 0
    /\ remain = 0
    /\ \E n \in {0, 1} :
          \/ \E S \in Slices :
                cfg = [Cfg0 EXCEPT !.kind = "tochan", !.up = "slice", !.source = S,
                                   !.consumers = n]
          \/ \E S \in Slices, m \in Mappings :
                cfg = [Cfg0 EXCEPT !.kind = "tochan", !.up = "map", !.source = S,
                                   !.mapping = m, !.consumers = n]
          \/ cfg = [Cfg0 EXCEPT !.kind = "tochan", !.up = "gen", !.consumers = n]

NextToChan ==
    \/ ToChanCall
    \/ ToChanPull
    \/ ToChanSend
    \/ ToChanDone
    \/ ToChanBlock
    \/ ToChanSent
    \/ ToChanCancel
    \/ ToChanExit
    \/ \E w \in Workers : RangeStart(w)
    \/ \E w \in Workers : ChanRecv(w)
    \/ \E w \in Workers : ChanPark(w)
    \/ \E w \in Workers : ChanWake(w)

SpecToChan == InitToChan /\ [][NextToChan]_vars

\* Every pull of the iterator returns, the goroutine is scheduled, and a select
\* whose Done case can proceed again and again takes it eventually.
SpecToChanFair ==
    /\ InitToChan
    /\ [][NextToChan]_vars
    /\ WF_vars(ToChanPull)
    /\ WF_vars(ToChanSend \/ ToChanDone \/ ToChanBlock)
    /\ SF_vars(ToChanDone)
    /\ WF_vars(ToChanSent)
    /\ WF_vars(ToChanExit)

\* ------------------------------------------------------- claims on ToChan

\* C28: for a finite iterator over S, a token that is not cancelled and one
\* consumer, the channel delivers the elements of S in order and nothing else,
\* it is closed once all of them were delivered, and the consumer that pulled
\* FromChan to its stop has collected exactly S.
C28_RoundTrip ==
    (cfg.kind = "tochan" /\ cfg.up = "slice" /\ cfg.consumers = 1 /\ ~ctxDone) =>
        /\ Len(log) <= Len(cfg.source)
        /\ \A i \in 1..Len(log) :
              log[i] = [vals |-> <<cfg.source[i]>>, c |-> i - 1]
        /\ ch.closed => (fin.pc = "gone" /\ fin.delivered = Len(cfg.source))
        /\ \A w \in Workers : ret[w] = ErrStopIt => ch.closed
        /\ AllStopped => [i \in 1..Len(log) |-> log[i].vals[1]] = cfg.source

\* the consumer collected a two-element sequence of different values and was
\* stopped by the closure
C28_Witness ==
    /\ cfg.kind = "tochan" /\ cfg.up = "slice" /\ cfg.consumers = 1 /\ ~ctxDone
    /\ Len(cfg.source) = 2 /\ cfg.source[1] # cfg.source[2]
    /\ AllStopped /\ ret[1] = ErrStopIt
    /\ Len(log) = 2

\* C29: once the token given to ToChan is cancelled, the goroutine exits and
\* the channel is closed, whatever the iterator and whether or not anybody
\* receives.
C29_CancelCloses ==
    (cfg.kind = "tochan" /\ ctxDone /\ fin.pc # "none")
        ~> (fin.pc = "gone" /\ ch.closed)

\* over the infinite generator, nobody receiving: the goroutine was parked in
\* its send when the token fired, and it exited and closed the channel
C29_Witness ==
    /\ cfg.kind = "tochan" /\ cfg.up = "gen" /\ cfg.consumers = 0
    /\ ctxDone /\ fin.pc = "gone" /\ fin.woken /\ ch.closed

\* C30: the channel is closed exactly once when the goroutine has exited, by
\* whichever path, and not before; nothing is sent on it once it is closed;
\* the consumer sees values and the closure only, never the iterator's cause.
C30_ClosedOnce ==
    (cfg.kind = "tochan" /\ fin.pc # "none") =>
        /\ fin.closes = (IF fin.pc = "gone" THEN 1 ELSE 0)
        /\ ch.closed <=> fin.pc = "gone"
        /\ fin.pc = "gone" => fin.exit \in {ErrStopIt, ErrCause, "cancel"}
        /\ ~fin.late
        /\ ch.closed => ch.ready = <<>>
        /\ \A w \in Workers : ret[w] \in {NoErr, ErrStopIt}

\* the iterator stopped with a cause after one element; the consumer got the
\* element and then the closure
C30_Witness ==
    /\ cfg.kind = "tochan" /\ fin.pc = "gone" /\ fin.exit = ErrCause
    /\ fin.closes = 1 /\ ch.closed
    /\ Len(log) = 1 /\ AllStopped /\ ret[1] = ErrStopIt

\* ------------------------------------------------------- claims on Final

\* C31: once Next() has returned false, every later Next() returns false, the
\* base iterator is not pulled again (its last pull is the one that stopped it)
\* and Stop() is still the signal of that pull.
C31_FinalLatches ==
    (cfg.kind = "fin" /\ fin.pc = "final" /\ fin.falses >= 1) =>
        /\ ~fin.ret
        /\ Len(results) = FirstStop
        /\ FinalStop(fin) = results[FirstStop].err

\* Next() was called again after a mapping failed at the first of two elements
C31_Witness ==
    /\ cfg.kind = "fin" /\ cfg.up = "map" /\ fin.pc = "final"
    /\ Len(cfg.source) = 2
    /\ fin.falses = 2
    /\ FinalStop(fin) = ErrCause

\* C32: Stop() is nil until a Next() has returned false; from then on Err() is
\* nil exactly when the base iterator stopped with ErrStopIt, and for any other
\* signal Err() and Stop() are both that signal.
C32_FinalErr ==
    (cfg.kind = "fin" /\ fin.pc = "final") =>
        IF fin.falses = 0
        THEN FinalStop(fin) = NoErr /\ FinalErr(fin) = NoErr
        ELSE LET cause == results[FirstStop].err
             IN /\ FinalErr(fin) = NoErr <=> cause = ErrStopIt
                /\ cause # ErrStopIt => (FinalErr(fin) = cause /\ FinalStop(fin) = cause)
                /\ cause = ErrStopIt => FinalStop(fin) = ErrStopIt

\* the slice ran out after two elements: Stop() is ErrStopIt and Err() is nil
C32_Witness ==
    /\ cfg.kind = "fin" /\ cfg.up = "slice" /\ fin.pc = "final"
    /\ Len(results) = 3 /\ fin.falses = 1
    /\ FinalStop(fin) = ErrStopIt /\ FinalErr(fin) = NoErr

\* ------------------------------------------------------------------ a stage over any upstream
\* An Iterator is any func() (T, error): the upstream of the stage returns an
\* element or a stop signal, whatever it returned before; it returns at most
\* SeqPulls times in all.  loc[w].up is what it returned last in w's pull.
AnyNext(w) ==
    /\ pc[w] = "srcCall"
    /\ cfg.up = "any"
    /\ upPulls < SeqPulls
    /\ upPulls' = upPulls + 1
    /\ \E v \in Values, err \in {NoErr, ErrStopIt, ErrCause} :
          Return(w, IF err = NoErr THEN v ELSE Empty, err, 0,
                 [loc[w] EXCEPT !.up = err, !.touched = TRUE])
    /\ UNCHANGED <<cfg, cursor, remain, stopped, mutex, extra, results,
                   value, ch, ctxDone, fin>>

\* Filter, Map, Limit, Pairs and Combine over such upstreams
InitStage ==
    /\ InitCommon
    /\ value = 0
    /\ \E kind \in {"filter", "map", "limit", "pairs", "combine"}, P \in Preds,
          m \in Mappings, n \in 0..MaxLimit, k \in 1..NumSources :
          /\ kind # "filter" => P = Cfg0.pred
          /\ kind # "map" => m = Cfg0.mapping
          /\ kind # "limit" => n = 0
          /\ kind = "pairs" => k = 2
          /\ kind \notin {"pairs", "combine"} => k = 1
          /\ cfg = [Cfg0 EXCEPT !.kind = kind, !.impl = "plain", !.up = "any",
                                 !.pred = P, !.mapping = m, !.limit = n, !.nsrc = k]
          /\ remain = n

NextStage ==
    \E w \in Workers :
        \/ Start(w)
        \/ AnyNext(w)
        \/ LimitCheck(w)
        \/ LimitUpdate(w)
        \/ ZipReturn(w)

SpecStage == InitStage /\ [][NextStage]_vars

\* ------------------------------------------------------- claims on a stage over any upstream

\* C33: when the upstream of Filter, Map, Limit, Pairs or Combine returned a
\* stop signal in a pull, the pull returns that very signal.
C33_SignalForwarded ==
    cfg.up = "any" =>
        \A w \in Workers :
            (pc[w] = "idle" /\ loc[w].up # NoErr) => ret[w] = loc[w].up

\* the second source of Combine failed after the first delivered an element,
\* and the pull returned the failure
C33_Witness ==
    /\ cfg.up = "any" /\ cfg.kind = "combine" /\ cfg.nsrc = 2
    /\ upPulls = 2
    /\ pc[1] = "idle" /\ loc[1].up = ErrCause /\ ret[1] = ErrCause

\* ------------------------------------------------------------------ LimitSafe over FromSlice
\* FromSlice keeps its cursor in a plain int: goroutines sharing it race on
\* it.  Each statement reads or writes the variable on its own.

\* if cursor >= len(source) { return empty, ErrStopIt }
PlainCheck(w) ==
    /\ pc[w] = "srcCall"
    /\ cfg.up = "plainslice"
    /\ upPulls' = upPulls + 1
    /\ IF cursor[loc[w].k] >= Len(cfg.source)
       THEN Return(w, Empty, ErrStopIt, cursor[loc[w].k], [loc[w] EXCEPT !.touched = TRUE])
       ELSE Goto(w, "plainValue", [loc[w] EXCEPT !.touched = TRUE])
    /\ UNCHANGED <<cfg, cursor, remain, stopped, mutex, extra, results,
                   value, ch, ctxDone, fin>>

\* value := source[cursor], and the read of cursor++; an index that another
\* goroutine moved past the end meanwhile panics and ends the program
PlainValue(w) ==
    /\ pc[w] = "plainValue"
    /\ LET c == cursor[loc[w].k]
       IN IF c >= Len(cfg.source)
          THEN /\ pc' = [v \in Workers |-> "panic"]
               /\ UNCHANGED <<loc, ret, seen, anyStop, anyFail, log>>
          ELSE Goto(w, "plainStore", [loc[w] EXCEPT !.c = c, !.vals = <<cfg.source[c + 1]>>])
    /\ UNCHANGED <<cfg, cursor, remain, stopped, mutex, extra, upPulls, results,
                   value, ch, ctxDone, fin>>

\* the write of cursor++; return value, nil
PlainStore(w) ==
    /\ pc[w] = "plainStore"
    /\ cursor' = [cursor EXCEPT ![loc[w].k] = loc[w].c + 1]
    /\ Return(w, loc[w].vals[1], NoErr, loc[w].c, loc[w])
    /\ UNCHANGED <<cfg, remain, stopped, mutex, extra, upPulls, results,
                   value, ch, ctxDone, fin>>

\* LimitSafe(FromSliceSafe(S), n) and LimitSafe(FromSlice(S), n) driven by G workers
InitRace ==
    /\ InitCommon
    /\ value = 0
    /\ \E up \in {"slice", "plainslice"}, S \in Slices, n \in 0..MaxLimit :
          /\ cfg = [Cfg0 EXCEPT !.kind = "limit", !.impl = "func", !.up = up,
                                 !.source = S, !.limit = n]
          /\ remain = n

NextRace ==
    \E w \in Workers :
        \/ Start(w)
        \/ LimitSafeDec(w)
        \/ LimitSafePin(w)
        \/ LimitSafeAfter(w)
        \/ SliceAdd(w)
        \/ SliceStore(w)
        \/ PlainCheck(w)
        \/ PlainValue(w)
        \/ PlainStore(w)

SpecRace == InitRace /\ [][NextRace]_vars

\* ------------------------------------------------------- claims on LimitSafe over FromSlice

\* C34: LimitSafe keeps its budget over either upstream, but only over
\* FromSliceSafe is every index of S delivered at most once: an index delivered
\* twice, or a panic, means the upstream is the plain FromSlice.
C34_UnsafeUpstream ==
    (cfg.kind = "limit" /\ cfg.up \in {"slice", "plainslice"}) =>
        /\ Len(log) <= Max(cfg.limit, 0)
        /\ (\E i, j \in 1..Len(log) : i # j /\ log[i].c = log[j].c)
              => cfg.up = "plainslice"
        /\ (\E w \in Workers : pc[w] = "panic") => cfg.up = "plainslice"

\* S has two different elements and the limit is 2: both workers were handed
\* S[0], every worker was stopped, and S[1] was never delivered
C34_Witness ==
    /\ cfg.kind = "limit" /\ cfg.impl = "func" /\ cfg.up = "plainslice"
    /\ Len(cfg.source) = 2 /\ cfg.source[1] # cfg.source[2] /\ cfg.limit = 2
    /\ AllStopped
    /\ Len(log) = 2
    /\ log[1] = [vals |-> <<cfg.source[1]>>, c |-> 0]
    /\ log[2] = log[1]

\* ------------------------------------------------------------------ Pairs and PairsSafe driven by G workers
\* Pairs(FromSliceSafe(S), FromSliceSafe(S)) and
\* PairsSafe(FromSliceSafe(S), FromSliceSafe(S)) driven by G workers
InitPairing ==
    /\ InitCommon
    /\ value = 0
    /\ remain = 0
    /\ \E impl \in {"plain", "func"}, S \in Slices :
          cfg = [Cfg0 EXCEPT !.kind = "pairs", !.impl = impl, !.source = S, !.nsrc = 2]

NextPairing ==
    \E w \in Workers :
        \/ Start(w)
        \/ PairsSafeLock(w)
        \/ SliceAdd(w)
        \/ SliceStore(w)
        \/ Unlock(w)
        \/ ZipReturn(w)

SpecPairing == InitPairing /\ [][NextPairing]_vars

\* ------------------------------------------------------- claims on Pairs driven by G workers

\* C35: with or without the lock every pull delivers a whole pair and no more
\* pairs are delivered than S has elements, but a pair with Left != Right is
\* delivered only by the unlocked Pairs.
C35_LockNeeded ==
    (cfg.kind = "pairs" /\ cfg.up = "slice") =>
        /\ \A i \in 1..Len(log) : Len(log[i].vals) = 2
        /\ Len(log) <= Len(cfg.source)
        /\ (\E i \in 1..Len(log) : log[i].vals[1] # log[i].vals[2])
              => cfg.impl = "plain"

\* S has two different elements; the first pair delivered is (S[0], S[1])
C35_Witness ==
    /\ cfg.kind = "pairs" /\ cfg.impl = "plain" /\ cfg.up = "slice"
    /\ Len(cfg.source) = 2
    /\ Len(log) >= 1
    /\ log[1].vals = <<cfg.source[1], cfg.source[2]>>
    /\ cfg.source[1] # cfg.source[2]

\* ------------------------------------------------------- claims on the critical section

\* the workers between mutex.Lock() and the deferred mutex.Unlock()
InRound == {w \in Workers : pc[w] \in {"srcCall", "srcStore", "unlock"}}

\* C36: in PairsSafe and CombineSafe at most one worker at a time is inside a
\* round and it holds the mutex; a worker that has returned, by whichever
\* path, does not hold it; and every pull that was started returns.
C36_RoundsSerialized ==
    /\ [](cfg.kind \in {"pairs", "combine"} =>
             /\ Cardinality(InRound) <= 1
             /\ \A w \in Workers : w \in InRound <=> mutex = w)
    /\ \A w \in Workers : (pc[w] # "idle") ~> (pc[w] = "idle")

\* a later source of CombineSafe stopped: the pull returned ErrStopIt, the mutex
\* is free again and another worker is waiting for it
C36_Witness ==
    /\ cfg.kind = "combine" /\ cfg.impl = "func" /\ cfg.nsrc = 2
    /\ Len(cfg.srcs[1]) = 2 /\ Len(cfg.srcs[2]) = 1
    /\ pc[1] = "idle" /\ ret[1] = ErrStopIt /\ cursor[1] = 2 /\ cursor[2] = 1
    /\ mutex = 0
    /\ pc[2] = "lock"

\* ------------------------------------------------------- claims on the element Pairs drops

\* the rounds in which left() delivered an element and right() stopped
RightStops == {i \in 1..Len(results) : results[i].lerr = NoErr /\ results[i].err # NoErr}
FirstRightStop == CHOOSE i \in RightStops : \A j \in RightStops : i <= j
\* the elements left() delivered and the pairs delivered in the first i rounds
LeftUpTo(i) == Cardinality({j \in 1..i : results[j].lerr = NoErr})
PairsUpTo(i) == Cardinality({j \in 1..i : results[j].err = NoErr})

ToChanDelivered == ch.sent - Len(ch.ready)

\* C38: the goroutine of ToChan has pulled as many elements as were received
\* from the channel, or one more; one more when it has returned through
\* case <-ctx.Done(), as many when it has returned because the iterator stopped.
C38_AtMostOneHeld ==
    (cfg.kind = "tochan" /\ fin.pc # "none") =>
        LET held == fin.pulled - ToChanDelivered
        IN /\ held \in {0, 1}
           /\ Len(log) <= ToChanDelivered
           /\ (fin.pc \in {"exit", "gone"} /\ fin.exit = "cancel") => held = 1
           /\ (fin.pc \in {"exit", "gone"} /\ fin.exit # "cancel") => held = 0

\* one element was received, the second was pending in the select when the
\* token fired: the goroutine has gone and the second element is lost
C38_Witness ==
    /\ cfg.kind = "tochan" /\ cfg.up = "slice" /\ Len(cfg.source) = 2
    /\ fin.pc = "gone" /\ fin.exit = "cancel" /\ fin.woken
    /\ fin.pulled = 2 /\ ToChanDelivered = 1 /\ Len(log) = 1

\* ------------------------------------------------------- claims on the counter of LimitSafe

\* C40: the counter of LimitSafe(source, n) and of the struct based safe limit
\* stays within [-G, max(n, 0)] in every reachable state.
C40_CounterWithinG ==
    LimitIsSafe => remain \in (0 - NumWorkers)..Max(cfg.limit, 0)

\* ------------------------------------------------------- ToChan over Filter, one loop iteration per step

\* one pull of Repeat(value): return it.value, nil
RepeatNext(x, cur) == [v |-> x, err |-> NoErr, cursor |-> cur]

\* it.Next() of the ToChan goroutine where it is Filter(source, predicate),
\* one iteration of Filter's for loop per step: source() is called, the loop
\* ends with the upstream's error or with an element the predicate accepts,
\* and goes round again otherwise. calls counts the calls of source() made by
\* the pull (it stops counting at SeqPulls), from is the upstream's cursor when
\* the pull began.
ToChanFilterLoop ==
    /\ cfg.kind = "tochan"
    /\ cfg.impl = "loop"
    /\ fin.pc \in {"pull", "filter"}
    /\ LET first == fin.pc = "pull"
           u == IF cfg.up = "repeat" THEN RepeatNext(cfg.start, cursor[1])
                ELSE FromSliceNext(cfg.source, cursor[1])
           n == FilterStep(cfg.pred, u.v, u.err)
           f == [fin EXCEPT !.calls = IF first THEN 1 ELSE Min(@ + 1, SeqPulls),
                            !.from = IF first THEN cursor[1] ELSE @]
       IN /\ cursor' = [cursor EXCEPT ![1] = u.cursor]
          /\ fin' = IF n.again THEN [f EXCEPT !.pc = "filter"]
                    ELSE IF n.err = NoErr
                         THEN [f EXCEPT !.pc = "select", !.v = u.v, !.pulled = @ + 1]
                         ELSE [f EXCEPT !.pc = ToChanReturn(n.err), !.exit = n.err]
    /\ UNCHANGED <<cfg, remain, stopped, mutex, pc, loc, seen, extra, log, ret,
                   anyStop, anyFail, upPulls, results, value, ch, ctxDone>>

\* ToChan(ctx, Filter(FromSlice(S), P)) and ToChan(ctx, Filter(Repeat(x), P))
InitToChanLoop ==
    /\ InitCommon
    /\ value = 0
    /\ remain = 0
    /\ \E n \in {0, 1}, P \in Preds :
          \/ \E S \in Slices :
                cfg = [Cfg0 EXCEPT !.kind = "tochan", !.impl = "loop", !.up = "slice",
                                   !.source = S, !.pred = P, !.consumers = n]
          \/ \E x \in Values :
                cfg = [Cfg0 EXCEPT !.kind = "tochan", !.impl = "loop", !.up = "repeat",
                                   !.start = x, !.pred = P, !.consumers = n]

NextToChanLoop ==
    \/ ToChanCall
    \/ ToChanFilterLoop
    \/ ToChanSend
    \/ ToChanDone
    \/ ToChanBlock
    \/ ToChanSent
    \/ ToChanCancel
    \/ ToChanExit
    \/ \E w \in Workers : RangeStart(w)
    \/ \E w \in Workers : ChanRecv(w)
    \/ \E w \in Workers : ChanPark(w)
    \/ \E w \in Workers : ChanWake(w)

SpecToChanLoop == InitToChanLoop /\ [][NextToChanLoop]_vars

\* C39: a pull of Filter over a slice with r elements left makes at most r + 1
\* calls of its upstream; over Repeat(x) with a predicate that rejects x the
\* pull never returns, so the ToChan goroutine driving it stays inside
\* it.Next(): it never reaches its select, never returns on the cancelled
\* context, sends nothing and never closes the channel.
C39_FilterPull ==
    (cfg.kind = "tochan" /\ cfg.impl = "loop" /\ fin.pc # "none") =>
        /\ cfg.up = "slice" => fin.calls <= (Len(cfg.source) - fin.from) + 1
        /\ (cfg.up = "repeat" /\ ~cfg.pred[cfg.start]) =>
              /\ fin.pc \in {"pull", "filter"}
              /\ fin.exit = "none"
              /\ fin.pulled = 0
              /\ ch.sent = 0
              /\ ~ch.closed
\* the context is cancelled while the goroutine is in its SeqPulls-th (or a
\* later) iteration of Filter over Repeat(x); a consumer is parked on the channel
C39_Witness ==
    /\ cfg.kind = "tochan" /\ cfg.impl = "loop" /\ cfg.up = "repeat"
    /\ ~cfg.pred[cfg.start]
    /\ ctxDone
    /\ fin.pc = "filter"
    /\ fin.calls = SeqPulls
    /\ Parked # {}
    /\ ~ch.closed
====
